---- MODULE Spec2Model ----
(***************************************************************************)
(* PokerBot: the card deck (backend/deck.py), the hand evaluator           *)
(* (backend/hand_evaluator.py), the best-hand selector and the round       *)
(* engine play_round (backend/main.py), with the bot's decision table      *)
(* (backend/bot_decision_with_eval.py).                                    *)
(*                                                                         *)
(* The specifications share the variables:                                 *)
(*   Spec      one call of play_round, step by step;                       *)
(*   SpecEval  evaluateHand, _best_hand_score and _compare_hands applied   *)
(*             to card lists drawn from bounded sets;                      *)
(*   SpecDeck  a cardDeck under sequences of shuffle/draw/burn/reset;      *)
(*   SpecSession  main(), the loop that calls play_round;                  *)
(*   SpecInput    getPlayerAction() on the lines the player types;         *)
(*   SpecBot      botDecisionWithEval on hole cards and 5-card hands.      *)
(***************************************************************************)
EXTENDS Integers, Sequences, FiniteSets, TLC

VARIABLES
    \* ---- play_round (main.py) ----
    pc,                 \* position in play_round
    playerBalance,      \* local playerBalance
    botBalance,         \* local botBalance
    playerIsSmallBlind, \* parameter
    startPlayerBalance, \* the playerBalance passed in
    startBotBalance,    \* the botBalance passed in
    pot,
    playerCommitted,
    botCommitted,
    playerHand,
    botHand,
    communityCards,
    playerActionStr,    \* "UNBOUND" until line 290/314 assigns it
    botActionStr,       \* "UNBOUND" until line 298/307 assigns it
    streetActions,      \* playerFlopAction .. botRiverAction, "" until assigned
    folder,             \* argument of _finish_on_fold, "None" if not called
    result,             \* what play_round gave back: a return value or an exception
    asked,              \* decisions requested so far: <<actor, street>>
    reshuffled,         \* safe_draw/safe_burn took the reset-and-retry path
    round,              \* main: the calls of play_round so far (0: called on its own)
    \* ---- cardDeck (deck.py) ----
    deck,               \* cardDeck.cards
    deckCall,           \* the last operation called on the deck and its n
    drawn,              \* what the last draw returned
    deckError,          \* the exception the last deck operation raised, or "None"
    deckOps,            \* operations applied to the deck so far
    handed,             \* the cards draws have returned: ever, and since the last reset
    \* ---- evaluator (hand_evaluator.py, main.py) ----
    evalHand,           \* the list passed as player_cards / cards / hand
    evalOther,          \* the list passed as bot_cards
    evalResult,         \* the value or exception of the last call
    \* ---- decision providers (get_player_action.py, bot_decision_with_eval.py) ----
    typed,              \* the lines the player will type, in order
    promptAt,           \* position in getPlayerAction
    decision            \* the Action the last decision provider returned

vars == << pc, playerBalance, botBalance, round, playerIsSmallBlind, startPlayerBalance,
           startBotBalance, pot, playerCommitted, botCommitted, playerHand, botHand,
           communityCards, playerActionStr, botActionStr, streetActions, folder,
           result, asked, reshuffled, deck, deckCall, drawn, deckError, deckOps, handed,
           evalHand, evalOther, evalResult, typed, promptAt, decision >>

roundVars == << pc, playerBalance, botBalance, round, playerIsSmallBlind, startPlayerBalance,
                startBotBalance, pot, playerCommitted, botCommitted, playerHand,
                botHand, communityCards, playerActionStr, botActionStr,
                streetActions, folder, result, asked, reshuffled >>

deckVars == << deck, deckCall, drawn, deckError, deckOps, handed >>

evalVars == << evalHand, evalOther, evalResult >>

ioVars == << typed, promptAt, decision >>

(***************************************************************************)
(* Cards and the deck: backend/deck.py                                     *)
(***************************************************************************)

\* cardDeck.__init__: the rank and suit lists
suits == << "Hearts", "Diamonds", "Clubs", "Spades" >>

ranks == << "2", "3", "4", "5", "6", "7", "8", "9", "10", "J", "Q", "K", "A" >>

\* playingCard(rank, suit)
playingCard(rank, suit) == [rank |-> rank, suit |-> suit]

\* playingCard.getValue: the rankValues dictionary
rankValues ==
    ("2" :> 2) @@ ("3" :> 3) @@ ("4" :> 4) @@ ("5" :> 5) @@ ("6" :> 6) @@ ("7" :> 7)
        @@ ("8" :> 8) @@ ("9" :> 9) @@ ("10" :> 10) @@ ("J" :> 11) @@ ("Q" :> 12)
        @@ ("K" :> 13) @@ ("A" :> 14)

\* playingCard.getValue: rankValues.get(self.rank, 0)
getValue(card) ==
    IF card.rank \in DOMAIN rankValues THEN rankValues[card.rank] ELSE 0

\* cardDeck.__init__: [playingCard(rank, suit) for rank in ranks for suit in suits]
NewDeck ==
    [i \in 1..(Len(ranks) * Len(suits)) |->
        playingCard(ranks[((i - 1) \div Len(suits)) + 1],
                    suits[((i - 1) % Len(suits)) + 1])]

Range(s) == {s[i] : i \in DOMAIN s}

Reverse(s) == [i \in 1..Len(s) |-> s[Len(s) + 1 - i]]


RECURSIVE GCD(_, _)
GCD(a, b) == IF b = 0 THEN a ELSE GCD(b, a % b)

(***************************************************************************)
(* Bounds of the model.                                                    *)
(***************************************************************************)

\* random.shuffle may leave any permutation; the model draws from the
\* permutations i |-> (c + s*i) mod n with cut c <= MaxCut, stride s <= MaxStride.
MaxCut == 1

MaxStride == 3

\* cardDeck.shuffle: random.shuffle(self.cards), every outcome the model draws
ShuffleOutcomes(cards) ==
    LET n == Len(cards)
    IN  IF n = 0
        THEN {cards}
        ELSE {[i \in 1..n |-> cards[((p[1] + p[2] * (i - 1)) % n) + 1]] :
                 p \in {q \in (0..MaxCut) \X (1..MaxStride) : GCD(q[2], n) = 1}}

\* The return value of draw: drawn[0] if n == 1 else drawn
DrawValue(cards, n) ==
    [single |-> (n = 1),
     cards  |-> [i \in 1..n |-> cards[Len(cards) + 1 - i]]]

NoCards == [single |-> FALSE, cards |-> << >>]

\* A draw that pops what is there when the deck is short (no length guard).
DrawUnguarded(cards, n) ==
    LET k == IF Len(cards) < n THEN Len(cards) ELSE n
    IN  [error |-> "None",
         cards |-> SubSeq(cards, 1, Len(cards) - k),
         drawn |-> DrawValue(cards, k)]

\* A draw that hands the top cards back and leaves them in the deck.
DrawPeek(cards, n) ==
    IF Len(cards) < n
    THEN [error |-> "emptyDeckError", cards |-> cards, drawn |-> NoCards]
    ELSE [error |-> "None", cards |-> cards, drawn |-> DrawValue(cards, n)]

\* cardDeck.draw(n): the deck afterwards, the value returned, the exception raised
Draw(cards, n) ==
    IF Len(cards) < n
    THEN [error |-> "emptyDeckError", cards |-> cards, drawn |-> NoCards]
    ELSE [error |-> "None",
          cards |-> SubSeq(cards, 1, Len(cards) - n),
          drawn |-> DrawValue(cards, n)]

\* cardDeck.burn(n)
Burn(cards, n) ==
    IF Len(cards) < n
    THEN [error |-> "emptyDeckError", cards |-> cards]
    ELSE [error |-> "None", cards |-> SubSeq(cards, 1, Len(cards) - n)]

\* A reset that only shuffles what the deck still holds.
ResetWithoutInit == ShuffleOutcomes(deck)

\* cardDeck.reset: self.__init__(); self.shuffle()
ResetOutcomes == ShuffleOutcomes(NewDeck)

\* A safe_draw that lets the emptyDeckError through.
SafeDrawNoRetry(cards, n) ==
    {[error |-> Draw(cards, n).error, cards |-> Draw(cards, n).cards,
      drawn |-> Draw(cards, n).drawn, reset |-> FALSE]}

\* safe_draw(deck, n): draw, and on emptyDeckError reset and draw again
SafeDrawOutcomes(cards, n) ==
    LET first == Draw(cards, n)
    IN  IF first.error = "None"
        THEN {[error |-> "None", cards |-> first.cards, drawn |-> first.drawn,
               reset |-> FALSE]}
        ELSE {[error |-> Draw(d, n).error, cards |-> Draw(d, n).cards,
               drawn |-> Draw(d, n).drawn, reset |-> TRUE] : d \in ResetOutcomes}

\* A safe_burn that takes the reset-and-retry path although the burn succeeds.
SafeBurnAlwaysResets(cards, n) ==
    {[error |-> Burn(d, n).error, cards |-> Burn(d, n).cards, reset |-> TRUE] :
        d \in ResetOutcomes}

\* safe_burn(deck, n): burn, and on emptyDeckError reset and burn again
SafeBurnOutcomes(cards, n) ==
    LET first == Burn(cards, n)
    IN  IF first.error = "None"
        THEN {[error |-> "None", cards |-> first.cards, reset |-> FALSE]}
        ELSE {[error |-> Burn(d, n).error, cards |-> Burn(d, n).cards,
               reset |-> TRUE] : d \in ResetOutcomes}

(***************************************************************************)
(* The hand evaluator: backend/hand_evaluator.py                           *)
(***************************************************************************)

\* Insert card c into the ascending list s behind every card of value <= its own.
RECURSIVE InsertByValue(_, _)
InsertByValue(c, s) ==
    IF s = << >>
    THEN << c >>
    ELSE IF getValue(s[Len(s)]) <= getValue(c)
         THEN Append(s, c)
         ELSE Append(InsertByValue(c, SubSeq(s, 1, Len(s) - 1)), s[Len(s)])

\* A sort that leaves the list as it was given.
NoSort(hand) == hand

\* hand.sort(key=lambda card: card.getValue()): stable, ascending
RECURSIVE SortByValue(_)
SortByValue(hand) ==
    IF hand = << >>
    THEN << >>
    ELSE InsertByValue(hand[Len(hand)], SortByValue(SubSeq(hand, 1, Len(hand) - 1)))

MaxOf(S) == CHOOSE x \in S : \A y \in S : y <= x

\* The if/elif chain of evaluateHand with the royal test dropped.
HandRankNoRoyal(listOfRanks, listOfSuits) ==
    LET counts == [r \in Range(listOfRanks) |->
                      Cardinality({i \in DOMAIN listOfRanks : listOfRanks[i] = r})]
        values == {counts[r] : r \in DOMAIN counts}
        isFlush == Cardinality(Range(listOfSuits)) = 1
        isStraight == \A i \in 1..(Len(listOfRanks) - 1) :
                          listOfRanks[i] + 1 = listOfRanks[i + 1]
    IN  IF isFlush /\ isStraight THEN 8
        ELSE IF 4 \in values THEN 7
        ELSE IF 3 \in values /\ 2 \in values THEN 6
        ELSE IF isFlush THEN 5
        ELSE IF isStraight THEN 4
        ELSE IF 3 \in values THEN 3
        ELSE IF Cardinality({r \in DOMAIN counts : counts[r] = 2}) = 2 THEN 2
        ELSE IF 2 \in values THEN 1
        ELSE 0

\* The if/elif chain of evaluateHand with the Ace also counted low in a straight.
HandRankAceLow(listOfRanks, listOfSuits) ==
    LET counts == [r \in Range(listOfRanks) |->
                      Cardinality({i \in DOMAIN listOfRanks : listOfRanks[i] = r})]
        values == {counts[r] : r \in DOMAIN counts}
        isFlush == Cardinality(Range(listOfSuits)) = 1
        isStraight == \/ \A i \in 1..(Len(listOfRanks) - 1) :
                              listOfRanks[i] + 1 = listOfRanks[i + 1]
                      \/ listOfRanks = << 2, 3, 4, 5, 14 >>
        isRoyal == listOfRanks = << 10, 11, 12, 13, 14 >>
    IN  IF isFlush /\ isRoyal THEN 9
        ELSE IF isFlush /\ isStraight THEN 8
        ELSE IF 4 \in values THEN 7
        ELSE IF 3 \in values /\ 2 \in values THEN 6
        ELSE IF isFlush THEN 5
        ELSE IF isStraight THEN 4
        ELSE IF 3 \in values THEN 3
        ELSE IF Cardinality({r \in DOMAIN counts : counts[r] = 2}) = 2 THEN 2
        ELSE IF 2 \in values THEN 1
        ELSE 0

\* evaluateHand, lines 25-51: handRank from the sorted ranks and the suits
HandRank(listOfRanks, listOfSuits) ==
    LET rankCounts == [r \in Range(listOfRanks) |->
                          Cardinality({i \in DOMAIN listOfRanks : listOfRanks[i] = r})]
        values == {rankCounts[r] : r \in DOMAIN rankCounts}
        isFlush == Cardinality(Range(listOfSuits)) = 1
        isStraight == \A i \in 1..(Len(listOfRanks) - 1) :
                          listOfRanks[i] + 1 = listOfRanks[i + 1]
        isRoyal == listOfRanks = << 10, 11, 12, 13, 14 >>
    IN  IF isFlush /\ isRoyal THEN 9
        ELSE IF isFlush /\ isStraight THEN 8
        ELSE IF 4 \in values THEN 7
        ELSE IF 3 \in values /\ 2 \in values THEN 6
        ELSE IF isFlush THEN 5
        ELSE IF isStraight THEN 4
        ELSE IF 3 \in values THEN 3
        ELSE IF Cardinality({r \in DOMAIN rankCounts : rankCounts[r] = 2}) = 2 THEN 2
        ELSE IF 2 \in values THEN 1
        ELSE 0

\* An evaluateHand that reports the first card of the sorted hand as the high card.
evaluateHandLowCard(hand) ==
    LET sorted == SortByValue(hand)
        listOfRanks == [i \in 1..Len(sorted) |-> getValue(sorted[i])]
        listOfSuits == [i \in 1..Len(sorted) |-> sorted[i].suit]
    IN  IF hand = << >>
        THEN [error |-> "ValueError", hand |-> sorted, score |-> << -1, -1 >>]
        ELSE [error |-> "None", hand |-> sorted,
              score |-> << HandRank(listOfRanks, listOfSuits), listOfRanks[1] >>]

\* evaluateHand(hand): the list as the call leaves it (sorted in place), and the
\* tuple returned or the exception raised (max() of an empty list)
evaluateHand(hand) ==
    LET sorted == SortByValue(hand)
        listOfRanks == [i \in 1..Len(sorted) |-> getValue(sorted[i])]
        listOfSuits == [i \in 1..Len(sorted) |-> sorted[i].suit]
    IN  IF hand = << >>
        THEN [error |-> "ValueError", hand |-> sorted, score |-> << -1, -1 >>]
        ELSE [error |-> "None", hand |-> sorted,
              score |-> << HandRank(listOfRanks, listOfSuits),
                           MaxOf(Range(listOfRanks)) >>]

(***************************************************************************)
(* The best-hand selector and the comparison: backend/main.py              *)
(***************************************************************************)

\* Tuple comparison a > b of two (rank, high card) scores
ScoreGreater(a, b) == a[1] > b[1] \/ (a[1] = b[1] /\ a[2] > b[2])

\* itertools.combinations(cards, k), in the order it yields them
RECURSIVE combinations(_, _)
combinations(cards, k) ==
    IF k = 0
    THEN << << >> >>
    ELSE IF Len(cards) < k
         THEN << >>
         ELSE LET rest == Tail(cards)
                  withHead == combinations(rest, k - 1)
              IN  [i \in 1..Len(withHead) |-> << cards[1] >> \o withHead[i]]
                  \o combinations(rest, k)

\* A selector that keeps the first combination's score.
FirstCombo(combos, i, best_score) ==
    IF combos = << >> THEN best_score ELSE evaluateHand(combos[1]).score

\* _best_hand_score, lines 47-52: the loop from combination i on
RECURSIVE BestOver(_, _, _)
BestOver(combos, i, best_score) ==
    IF i > Len(combos)
    THEN best_score
    ELSE LET combo_score == evaluateHand(combos[i]).score
         IN  BestOver(combos, i + 1,
                      IF ScoreGreater(combo_score, best_score)
                      THEN combo_score ELSE best_score)

\* _best_hand_score(cards): evaluateHand(list(cards)) for up to 5 cards, else the
\* best score over the 5-card combinations
best_hand_score(cards) ==
    IF Len(cards) <= 5
    THEN LET direct == evaluateHand(cards)
         IN  [error |-> direct.error, score |-> direct.score]
    ELSE [error |-> "None",
          score |-> BestOver(combinations(cards, 5), 1, << -1, -1 >>)]

\* A comparison that names the lower score the winner.
CompareReversed(player_cards, bot_cards) ==
    LET player_score == best_hand_score(player_cards).score
        bot_score == best_hand_score(bot_cards).score
    IN  [winner |-> IF ScoreGreater(player_score, bot_score) THEN "Bot"
                    ELSE IF ScoreGreater(bot_score, player_score) THEN "Player"
                    ELSE "Tie",
         playerScore |-> player_score, botScore |-> bot_score]

\* A comparison that gives ties to the player.
CompareTieToPlayer(player_cards, bot_cards) ==
    LET player_score == best_hand_score(player_cards).score
        bot_score == best_hand_score(bot_cards).score
    IN  [winner |-> IF ScoreGreater(bot_score, player_score) THEN "Bot" ELSE "Player",
         playerScore |-> player_score, botScore |-> bot_score]

\* _compare_hands(player_cards, bot_cards)
compare_hands(player_cards, bot_cards) ==
    LET player_score == best_hand_score(player_cards).score
        bot_score == best_hand_score(bot_cards).score
    IN  [winner |-> IF ScoreGreater(player_score, bot_score) THEN "Player"
                    ELSE IF ScoreGreater(bot_score, player_score) THEN "Bot"
                    ELSE "Tie",
         playerScore |-> player_score, botScore |-> bot_score]

(***************************************************************************)
(* The decision providers                                                  *)
(***************************************************************************)

\* The raise amount the player types in a round.
MaxPlayerRaise == 30

\* random.randint(lo, hi) is sampled at lo, hi and every RandStep from lo.
RandStep == 40

randint(lo, hi) == {x \in lo..hi : x = lo \/ x = hi \/ (x - lo) % RandStep = 0}

Action(name, amount) == [name |-> name, amount |-> amount]

\* getPlayerAction(): the tuples it can return
PlayerDecisions ==
    {Action("FOLD", 0), Action("CALL", 0)}
        \cup {Action("RAISE", a) : a \in {MaxPlayerRaise}}

\* botDecisionWithEval, lines 37-82: the decisions possible for a hand rank
BotDecisionTable(handRank) ==
    CASE handRank = 0 -> {Action("FOLD", 0), Action("CALL", 0)}
      [] handRank = 1 -> {Action("FOLD", 0), Action("CALL", 0)}
      [] handRank = 2 -> {Action("FOLD", 0), Action("CALL", 0)}
      [] handRank = 3 -> {Action("CALL", 0)}
                            \cup {Action("RAISE", a) : a \in randint(20, 50)}
      [] handRank = 4 -> {Action("CALL", 0)}
                            \cup {Action("RAISE", a) : a \in randint(30, 70)}
      [] handRank = 5 -> {Action("RAISE", a) : a \in randint(40, 80)}
      [] handRank = 6 -> {Action("RAISE", a) : a \in randint(60, 100)}
      [] handRank = 7 -> {Action("RAISE", a) : a \in randint(70, 120)}
      [] handRank = 8 -> {Action("RAISE", a) : a \in randint(90, 150)}
      [] handRank = 9 -> {Action("RAISE", a) : a \in randint(150, 200)}
      [] OTHER -> {Action("CALL", 0)}

\* botDecisionWithEval(botHand): evaluateHand(botHand), then the table
botDecisionWithEval(cards) == BotDecisionTable(evaluateHand(cards).score[1])

\* _format_action: "RAISE <amount>" for a raise with a non-zero amount, else the name
format_action(action) ==
    IF action.name = "RAISE" /\ action.amount # 0
    THEN << action.name, action.amount >>
    ELSE << action.name >>

\* A local of play_round that no assignment has reached yet
Unbound == << "UNBOUND" >>

\* The empty string the street action locals start with (lines 151-153)
EmptyStr == << >>

(***************************************************************************)
(* play_round: backend/main.py                                             *)
(***************************************************************************)

\* main(): playerBalance = 1000, botBalance = 1000
InitialBalance == 1000

\* play_round's defaults, which main() passes as SMALL_BLIND and BIG_BLIND
smallBlind == 5

bigBlind == 10

\* Short stacks a round may be entered with: one below the small blind, one that
\* covers the blinds but not a raise.
ShortStack == 3

MidStack == 25

StartBalances == {ShortStack, MidStack, InitialBalance}

\* Preflop the player may also type a raise of a whole starting stack, which
\* the balance truncates to everything the player has left.
PlayerPreflopDecisions == PlayerDecisions \cup {Action("RAISE", InitialBalance)}

Min(a, b) == IF a < b THEN a ELSE b

Max(a, b) == IF a > b THEN a ELSE b

\* A chip movement that is not capped at the balance.
Uncapped(amount, balance) == amount

\* toPut = min(amount, balance): lines 273, 279, 353, 368, 376
toPut(amount, balance) == Min(amount, balance)

\* The roles the wrong way round: the big blind opens.
firstToActBigBlind == IF playerIsSmallBlind THEN "bot" ELSE "player"

\* Lines 169 and 183: firstToAct is the small blind
firstToAct == IF playerIsSmallBlind THEN "player" ELSE "bot"

NoResult == [kind |-> "none", winner |-> "None", roundData |-> << >>,
             playerBalance |-> 0, botBalance |-> 0, error |-> "None"]

\* HAND_RANK_LABELS.get(score[0], "Unknown")
HAND_RANK_LABELS(handRank) ==
    CASE handRank = 0 -> "High Card"
      [] handRank = 1 -> "One Pair"
      [] handRank = 2 -> "Two Pair"
      [] handRank = 3 -> "Three of a Kind"
      [] handRank = 4 -> "Straight"
      [] handRank = 5 -> "Flush"
      [] handRank = 6 -> "Full House"
      [] handRank = 7 -> "Four of a Kind"
      [] handRank = 8 -> "Straight Flush"
      [] handRank = 9 -> "Royal Flush"
      [] OTHER -> "Unknown"

\* playingCard.__str__: "<rank> of <suit>"
CardStr(card) == << card.rank, " of ", card.suit >>

\* ", ".join(str(card) for card in cards): the card strings in order
JoinCards(cards) == [i \in DOMAIN cards |-> CardStr(cards[i])]

\* The score arguments of _build_round_data when no showdown took place
NoScore == << >>

\* _build_round_data, lines 540-598: the keys of the row and their values; the
\* communityCards argument is not used
build_round_data(pHand, bHand, community, playerPreflopAction, botPreflopAction, winner, playerScore, botScore, actions) ==
    [PlayerHand |-> JoinCards(pHand),
     BotHand |-> JoinCards(bHand),
     PlayerStrength |-> IF playerScore # NoScore
                        THEN HAND_RANK_LABELS(playerScore[1]) ELSE "",
     BotStrength |-> IF botScore # NoScore
                     THEN HAND_RANK_LABELS(botScore[1]) ELSE "",
     PlayerPreflopAction |-> playerPreflopAction,
     BotPreflopAction |-> botPreflopAction,
     PlayerFlopAction |-> actions["flop"].player,
     BotFlopAction |-> actions["flop"].bot,
     PlayerTurnAction |-> actions["turn"].player,
     BotTurnAction |-> actions["turn"].bot,
     PlayerRiverAction |-> actions["river"].player,
     BotRiverAction |-> actions["river"].bot,
     PlayerBalance |-> "",
     Winner |-> winner]

\* A _take_action whose CALL branch does not add to the pot.
take_action_call_unpotted(action, amountToCall, balance, committed) ==
    LET put == IF action.name = "CALL" THEN toPut(amountToCall, balance)
               ELSE IF action.name = "RAISE"
                    THEN toPut(amountToCall + action.amount, balance)
                    ELSE 0
    IN  [actionStr |-> format_action(action),
         balance   |-> balance - put,
         committed |-> committed + put,
         folded    |-> action.name = "FOLD",
         put       |-> IF action.name = "CALL" THEN 0 ELSE put]

\* A _take_action whose RAISE pays the extra amount without the call difference.
take_action_raise_without_call(action, amountToCall, balance, committed) ==
    LET put == IF action.name = "CALL" THEN toPut(amountToCall, balance)
               ELSE IF action.name = "RAISE"
                    THEN toPut(action.amount, balance)
                    ELSE 0
    IN  [actionStr |-> format_action(action),
         balance   |-> balance - put,
         committed |-> committed + put,
         folded    |-> action.name = "FOLD",
         put       |-> put]

\* _take_action, lines 269-284: (actionStr, newBalance, newCommitted, foldedFlag)
\* and the chips added to the pot
take_action(action, amountToCall, balance, committed) ==
    LET put == IF action.name = "CALL" THEN toPut(amountToCall, balance)
               ELSE IF action.name = "RAISE"
                    THEN toPut(amountToCall + action.amount, balance)
                    ELSE 0
    IN  [actionStr |-> format_action(action),
         balance   |-> balance - put,
         committed |-> committed + put,
         folded    |-> action.name = "FOLD",
         put       |-> put]

\* The value play_round returns: (winner, roundData, playerBalance, botBalance)
\* return winner, roundData, playerBalance, botBalance
Returned(winner, roundData, pBal, bBal) ==
    [kind |-> "return", winner |-> winner, roundData |-> roundData,
     playerBalance |-> pBal, botBalance |-> bBal, error |-> "None"]

Raised(error) ==
    [kind |-> "exception", winner |-> "None", roundData |-> << >>,
     playerBalance |-> 0, botBalance |-> 0, error |-> error]

\* A fold after which one more card is burned.
finish_then_burn(who, stageWinner, pBal, bBal, pStr, bStr, bHand, actions) ==
    /\ folder' = who
    /\ playerBalance' = IF stageWinner = "Player" THEN pBal + pot ELSE pBal
    /\ botBalance' = IF stageWinner = "Bot" THEN bBal + pot ELSE bBal
    /\ pot' = 0
    /\ IF pStr = Unbound \/ bStr = Unbound
       THEN /\ result' = Raised("NameError")
            /\ pc' = "raised"
       ELSE /\ result' = Returned(stageWinner,
                                  build_round_data(playerHand, bHand, communityCards,
                                                   pStr, bStr, stageWinner, NoScore,
                                                   NoScore, actions),
                                  playerBalance', botBalance')
            /\ pc' = "returned"
    /\ deck' = Burn(deck, 1).cards
    /\ UNCHANGED communityCards

\* A fold after which the pot is cleared without being paid to the winner.
finish_pot_unpaid(who, stageWinner, pBal, bBal, pStr, bStr, bHand, actions) ==
    /\ folder' = who
    /\ playerBalance' = pBal
    /\ botBalance' = bBal
    /\ pot' = 0
    /\ IF pStr = Unbound \/ bStr = Unbound
       THEN /\ result' = Raised("NameError")
            /\ pc' = "raised"
       ELSE /\ result' = Returned(stageWinner,
                                  build_round_data(playerHand, bHand, communityCards,
                                                   pStr, bStr, stageWinner, NoScore,
                                                   NoScore, actions),
                                  playerBalance', botBalance')
            /\ pc' = "returned"
    /\ UNCHANGED << deck, communityCards >>

\* _finish_on_fold(folder, stageWinner), lines 196-238, called with the balances
\* and preflop action strings the caller has just assigned.  Reading a preflop
\* action string that no assignment has reached raises NameError (lines 215-216).
finish_on_fold(who, stageWinner, pBal, bBal, pStr, bStr, bHand, actions) ==
    /\ folder' = who
    /\ playerBalance' = IF stageWinner = "Player" THEN pBal + pot ELSE pBal
    /\ botBalance' = IF stageWinner = "Bot" THEN bBal + pot ELSE bBal
    /\ pot' = 0
    /\ IF pStr = Unbound \/ bStr = Unbound
       THEN /\ result' = Raised("NameError")
            /\ pc' = "raised"
       ELSE /\ result' = Returned(stageWinner,
                                  build_round_data(playerHand, bHand, communityCards,
                                                   pStr, bStr, stageWinner, NoScore,
                                                   NoScore, actions),
                                  playerBalance', botBalance')
            /\ pc' = "returned"
    /\ UNCHANGED << deck, communityCards >>

\* play_round enters with the balances and the blind role it is given.
RoundInit ==
    /\ pc = "deal"
    /\ playerBalance \in StartBalances
    /\ botBalance \in StartBalances
    /\ startPlayerBalance = playerBalance
    /\ startBotBalance = botBalance
    /\ playerIsSmallBlind \in BOOLEAN
    /\ round = 0
    /\ pot = 0
    /\ playerCommitted = 0
    /\ botCommitted = 0
    /\ playerHand = << >>
    /\ botHand = << >>
    /\ communityCards = << >>
    /\ playerActionStr = Unbound
    /\ botActionStr = Unbound
    /\ streetActions = [s \in {"flop", "turn", "river"} |->
                            [player |-> EmptyStr, bot |-> EmptyStr]]
    /\ folder = "None"
    /\ result = NoResult
    /\ asked = << >>
    /\ reshuffled = FALSE

NoCall == [op |-> "none", n |-> 0, reset |-> FALSE]

NoneHanded == [ever |-> {}, sinceReset |-> {}]

DeckIdle ==
    /\ deck = << >>
    /\ deckCall = NoCall
    /\ drawn = NoCards
    /\ deckError = "None"
    /\ deckOps = 0
    /\ handed = NoneHanded

EvalIdle ==
    /\ evalHand = << >>
    /\ evalOther = << >>
    /\ evalResult = [op |-> "none", error |-> "None", score |-> << -1, -1 >>,
                     otherScore |-> << -1, -1 >>, winner |-> "None",
                     arg |-> << >>]

NoDecision == Action("NONE", 0)

IoIdle ==
    /\ typed = << >>
    /\ promptAt = "idle"
    /\ decision = NoDecision

Init == RoundInit /\ DeckIdle /\ EvalIdle /\ IoIdle

\* Lines 129-153: a fresh shuffled deck, the round state, two hole cards each
DealHole ==
    /\ pc = "deal"
    /\ \E d \in ShuffleOutcomes(NewDeck) :
        \E p \in SafeDrawOutcomes(d, 2) :
            \E b \in SafeDrawOutcomes(p.cards, 2) :
                /\ playerHand' = p.drawn.cards
                /\ botHand' = b.drawn.cards
                /\ deck' = b.cards
                /\ reshuffled' = (p.reset \/ b.reset)
    /\ pot' = 0
    /\ playerCommitted' = 0
    /\ botCommitted' = 0
    /\ communityCards' = << >>
    /\ pc' = "blinds"
    /\ UNCHANGED << playerBalance, botBalance, round, playerIsSmallBlind, startPlayerBalance,
                    startBotBalance, playerActionStr, botActionStr, streetActions,
                    folder, result, asked, deckCall, drawn, deckError, deckOps, handed,
                    evalVars, ioVars >>

\* Blinds posted the wrong way round: the small-blind actor pays the big blind.
PostBlindsSwapped ==
    /\ pc = "blinds"
    /\ LET sbAmount == IF playerIsSmallBlind THEN toPut(smallBlind, botBalance)
                       ELSE toPut(smallBlind, playerBalance)
           bbAmount == IF playerIsSmallBlind THEN toPut(bigBlind, playerBalance)
                       ELSE toPut(bigBlind, botBalance)
       IN  /\ playerBalance' = playerBalance
                                - (IF playerIsSmallBlind THEN bbAmount ELSE sbAmount)
           /\ botBalance' = botBalance
                                - (IF playerIsSmallBlind THEN sbAmount ELSE bbAmount)
           /\ pot' = pot + sbAmount + bbAmount
           /\ playerCommitted' = IF playerIsSmallBlind THEN bbAmount ELSE sbAmount
           /\ botCommitted' = IF playerIsSmallBlind THEN sbAmount ELSE bbAmount
    /\ pc' = "preflop_first"
    /\ UNCHANGED << round, playerIsSmallBlind, startPlayerBalance, startBotBalance, playerHand,
                    botHand, communityCards, playerActionStr, botActionStr,
                    streetActions, folder, result, asked, reshuffled, deckVars,
                    evalVars, ioVars >>

\* Lines 156-183: the blinds, capped at the balances
PostBlinds ==
    /\ pc = "blinds"
    /\ LET sbAmount == IF playerIsSmallBlind THEN toPut(smallBlind, playerBalance)
                       ELSE toPut(smallBlind, botBalance)
           bbAmount == IF playerIsSmallBlind THEN toPut(bigBlind, botBalance)
                       ELSE toPut(bigBlind, playerBalance)
       IN  /\ playerBalance' = playerBalance
                                - (IF playerIsSmallBlind THEN sbAmount ELSE bbAmount)
           /\ botBalance' = botBalance
                                - (IF playerIsSmallBlind THEN bbAmount ELSE sbAmount)
           /\ pot' = pot + sbAmount + bbAmount
           /\ playerCommitted' = IF playerIsSmallBlind THEN sbAmount ELSE bbAmount
           /\ botCommitted' = IF playerIsSmallBlind THEN bbAmount ELSE sbAmount
    /\ pc' = "preflop_first"
    /\ UNCHANGED << round, playerIsSmallBlind, startPlayerBalance, startBotBalance, playerHand,
                    botHand, communityCards, playerActionStr, botActionStr,
                    streetActions, folder, result, asked, reshuffled, deckVars,
                    evalVars, ioVars >>

\* Lines 289-294 and 313-318: the player's preflop decision through _take_action
PlayerPreflop(here, next) ==
    /\ pc = here
    /\ \E action \in PlayerPreflopDecisions :
        LET amountToCall == Max(0, botCommitted - playerCommitted)
            r == take_action(action, amountToCall, playerBalance, playerCommitted)
        IN  /\ playerActionStr' = r.actionStr
            /\ playerCommitted' = r.committed
            /\ asked' = Append(asked, << "player", "preflop" >>)
            /\ IF r.folded
               THEN finish_on_fold("Player", "Bot", r.balance, botBalance,
                                   r.actionStr, botActionStr, botHand, streetActions)
               ELSE /\ playerBalance' = r.balance
                    /\ pot' = pot + r.put
                    /\ pc' = next
                    /\ UNCHANGED << botBalance, folder, result, deck, communityCards >>
    /\ UNCHANGED << round, playerIsSmallBlind, startPlayerBalance, startBotBalance, playerHand,
                    botHand, botCommitted, botActionStr, streetActions, reshuffled,
                    deckCall, drawn, deckError, deckOps, handed, evalVars, ioVars >>

\* Lines 297-302 and 306-311: the bot's preflop decision through _take_action;
\* botDecisionWithEval(botHand) sorts the bot's hole cards in place
BotPreflop(here, next) ==
    /\ pc = here
    /\ \E action \in botDecisionWithEval(botHand) :
        LET amountToCall == Max(0, playerCommitted - botCommitted)
            r == take_action(action, amountToCall, botBalance, botCommitted)
        IN  /\ botActionStr' = r.actionStr
            /\ botCommitted' = r.committed
            /\ botHand' = evaluateHand(botHand).hand
            /\ asked' = Append(asked, << "bot", "preflop" >>)
            /\ IF r.folded
               THEN finish_on_fold("Bot", "Player", playerBalance, r.balance,
                                   playerActionStr, r.actionStr,
                                   evaluateHand(botHand).hand, streetActions)
               ELSE /\ botBalance' = r.balance
                    /\ pot' = pot + r.put
                    /\ pc' = next
                    /\ UNCHANGED << playerBalance, folder, result, deck,
                                    communityCards >>
    /\ UNCHANGED << round, playerIsSmallBlind, startPlayerBalance, startBotBalance, playerHand,
                    playerCommitted, playerActionStr, streetActions, reshuffled,
                    deckCall, drawn, deckError, deckOps, handed, evalVars, ioVars >>

\* Lines 287-318: the first preflop decision is the small blind's
PreflopFirst ==
    IF firstToAct = "player"
    THEN PlayerPreflop("preflop_first", "preflop_second")
    ELSE BotPreflop("preflop_first", "preflop_second")

\* Lines 296-302 and 313-318: the second preflop decision is the big blind's
PreflopSecond ==
    IF firstToAct = "player"
    THEN BotPreflop("preflop_second", "flop_deal")
    ELSE PlayerPreflop("preflop_second", "flop_deal")

\* Lines 327-337: burn one card, deal the three flop cards, reset the street bets
DealFlop ==
    /\ pc = "flop_deal"
    /\ \E b \in SafeBurnOutcomes(deck, 1) :
        \E d \in SafeDrawOutcomes(b.cards, 3) :
            /\ communityCards' = communityCards \o d.drawn.cards
            /\ deck' = d.cards
            /\ reshuffled' = (reshuffled \/ b.reset \/ d.reset)
    /\ playerCommitted' = 0
    /\ botCommitted' = 0
    /\ pc' = "flop_player"
    /\ UNCHANGED << playerBalance, botBalance, round, playerIsSmallBlind, startPlayerBalance,
                    startBotBalance, pot, playerHand, botHand, playerActionStr,
                    botActionStr, streetActions, folder, result, asked, deckCall,
                    drawn, deckError, deckOps, handed, evalVars, ioVars >>

\* communityCards.append(safe_draw(deck)): draw(1) hands back the card itself
AppendDrawn(cards, value) ==
    IF value.single THEN Append(cards, value.cards[1]) ELSE Append(cards, value.cards)

\* A turn or river dealt without burning a card first.
DealOneNoBurn(here, next) ==
    /\ pc = here
    /\ \E d \in SafeDrawOutcomes(deck, 1) :
        /\ communityCards' = AppendDrawn(communityCards, d.drawn)
        /\ deck' = d.cards
        /\ reshuffled' = (reshuffled \/ d.reset)
    /\ playerCommitted' = 0
    /\ botCommitted' = 0
    /\ pc' = next
    /\ UNCHANGED << playerBalance, botBalance, round, playerIsSmallBlind, startPlayerBalance,
                    startBotBalance, pot, playerHand, botHand, playerActionStr,
                    botActionStr, streetActions, folder, result, asked, deckCall,
                    drawn, deckError, deckOps, handed, evalVars, ioVars >>

\* Lines 385-395 (turn) and 438-448 (river): burn one card, deal one card
DealOne(here, next) ==
    /\ pc = here
    /\ \E b \in SafeBurnOutcomes(deck, 1) :
        \E d \in SafeDrawOutcomes(b.cards, 1) :
            /\ communityCards' = AppendDrawn(communityCards, d.drawn)
            /\ deck' = d.cards
            /\ reshuffled' = (reshuffled \/ b.reset \/ d.reset)
    /\ playerCommitted' = 0
    /\ botCommitted' = 0
    /\ pc' = next
    /\ UNCHANGED << playerBalance, botBalance, round, playerIsSmallBlind, startPlayerBalance,
                    startBotBalance, pot, playerHand, botHand, playerActionStr,
                    botActionStr, streetActions, folder, result, asked, deckCall,
                    drawn, deckError, deckOps, handed, evalVars, ioVars >>

DealTurn == DealOne("turn_deal", "turn_player")

DealRiver == DealOne("river_deal", "river_player")

\* Lines 340-356 (flop), 397-410 (turn), 450-463 (river): the player's decision
PlayerStreet(street, here, next) ==
    /\ pc = here
    /\ \E action \in PlayerDecisions :
        /\ streetActions' = [streetActions EXCEPT ![street].player = format_action(action)]
        /\ asked' = Append(asked, << "player", street >>)
        /\ IF action.name = "FOLD"
           THEN /\ finish_on_fold("Player", "Bot", playerBalance, botBalance,
                                  playerActionStr, botActionStr, botHand,
                                  [streetActions EXCEPT
                                      ![street].player = format_action(action)])
                /\ UNCHANGED playerCommitted
           ELSE LET put == IF action.name = "RAISE"
                           THEN toPut(action.amount, playerBalance) ELSE 0
                IN  /\ playerBalance' = playerBalance - put
                    /\ pot' = pot + put
                    /\ playerCommitted' = playerCommitted + put
                    /\ pc' = next
                    /\ UNCHANGED << botBalance, folder, result, deck, communityCards >>
    /\ UNCHANGED << round, playerIsSmallBlind, startPlayerBalance, startBotBalance, playerHand,
                    botHand, botCommitted, playerActionStr, botActionStr, reshuffled,
                    deckCall, drawn, deckError, deckOps, handed, evalVars, ioVars >>

\* A bot whose CALL on a street pays the size of the pot.
BotStreetCallPaysPot(street, here, next) ==
    /\ pc = here
    /\ \E action \in botDecisionWithEval(botHand \o communityCards) :
        /\ streetActions' = [streetActions EXCEPT ![street].bot = format_action(action)]
        /\ asked' = Append(asked, << "bot", street >>)
        /\ IF action.name = "FOLD"
           THEN /\ finish_on_fold("Bot", "Player", playerBalance, botBalance,
                                  playerActionStr, botActionStr, botHand,
                                  [streetActions EXCEPT
                                      ![street].bot = format_action(action)])
                /\ UNCHANGED botCommitted
           ELSE LET put == IF action.name = "CALL"
                           THEN toPut(pot, botBalance)
                           ELSE IF action.name = "RAISE"
                                THEN toPut(playerCommitted + action.amount, botBalance)
                                ELSE 0
                IN  /\ botBalance' = botBalance - put
                    /\ pot' = pot + put
                    /\ botCommitted' = botCommitted + put
                    /\ pc' = next
                    /\ UNCHANGED << playerBalance, folder, result, deck,
                                    communityCards >>
    /\ UNCHANGED << round, playerIsSmallBlind, startPlayerBalance, startBotBalance, playerHand,
                    botHand, playerCommitted, playerActionStr, botActionStr, reshuffled,
                    deckCall, drawn, deckError, deckOps, handed, evalVars, ioVars >>

\* Lines 358-379 (flop), 412-432 (turn), 465-485 (river): the bot's decision on
\* evaluateHand(botHand + communityCards)
BotStreet(street, here, next) ==
    /\ pc = here
    /\ \E action \in botDecisionWithEval(botHand \o communityCards) :
        /\ streetActions' = [streetActions EXCEPT ![street].bot = format_action(action)]
        /\ asked' = Append(asked, << "bot", street >>)
        /\ IF action.name = "FOLD"
           THEN /\ finish_on_fold("Bot", "Player", playerBalance, botBalance,
                                  playerActionStr, botActionStr, botHand,
                                  [streetActions EXCEPT
                                      ![street].bot = format_action(action)])
                /\ UNCHANGED botCommitted
           ELSE LET put == IF action.name = "CALL"
                           THEN (IF playerCommitted > 0
                                 THEN toPut(playerCommitted, botBalance) ELSE 0)
                           ELSE IF action.name = "RAISE"
                                THEN toPut(playerCommitted + action.amount, botBalance)
                                ELSE 0
                IN  /\ botBalance' = botBalance - put
                    /\ pot' = pot + put
                    /\ botCommitted' = botCommitted + put
                    /\ pc' = next
                    /\ UNCHANGED << playerBalance, folder, result, deck,
                                    communityCards >>
    /\ UNCHANGED << round, playerIsSmallBlind, startPlayerBalance, startBotBalance, playerHand,
                    botHand, playerCommitted, playerActionStr, botActionStr, reshuffled,
                    deckCall, drawn, deckError, deckOps, handed, evalVars, ioVars >>

PlayerFlop == PlayerStreet("flop", "flop_player", "flop_bot")

BotFlop == BotStreet("flop", "flop_bot", "turn_deal")

PlayerTurn == PlayerStreet("turn", "turn_player", "turn_bot")

BotTurn == BotStreet("turn", "turn_bot", "river_deal")

PlayerRiver == PlayerStreet("river", "river_player", "river_bot")

BotRiver == BotStreet("river", "river_bot", "showdown")

\* Lines 492-538: compare the best hands, pay the pot to the winner, return
Showdown ==
    /\ pc = "showdown"
    /\ \E c \in {compare_hands(playerHand \o communityCards,
                                botHand \o communityCards)} :
           /\ playerBalance' = IF c.winner = "Player" THEN playerBalance + pot
                               ELSE playerBalance
           /\ botBalance' = IF c.winner = "Bot" THEN botBalance + pot ELSE botBalance
           /\ result' = Returned(c.winner,
                                 build_round_data(playerHand, botHand, communityCards,
                                                  playerActionStr, botActionStr,
                                                  c.winner, c.playerScore, c.botScore,
                                                  streetActions),
                                 playerBalance', botBalance')
    /\ pc' = "returned"
    /\ UNCHANGED << round, playerIsSmallBlind, startPlayerBalance, startBotBalance, pot,
                    playerCommitted, botCommitted, playerHand, botHand, communityCards,
                    playerActionStr, botActionStr, streetActions, folder, asked,
                    reshuffled, deckVars, evalVars, ioVars >>

Next ==
    \/ DealHole
    \/ PostBlinds
    \/ PreflopFirst
    \/ PreflopSecond
    \/ DealFlop
    \/ PlayerFlop
    \/ BotFlop
    \/ DealTurn
    \/ PlayerTurn
    \/ BotTurn
    \/ DealRiver
    \/ PlayerRiver
    \/ BotRiver
    \/ Showdown

Spec == Init /\ [][Next]_vars

(***************************************************************************)
(* SpecEval: the evaluator applied to card lists drawn from bounded sets   *)
(***************************************************************************)

\* 5-card hands are drawn from the NumHandRanks highest ranks in all four suits.
NumHandRanks == 6

\* Pools of 2, 6 and 7 cards are drawn from the first NumPoolCards cards of PoolCards.
NumPoolCards == 12

HandUniverse == SubSeq(Reverse(NewDeck), 1, NumHandRanks * Len(suits))

PoolCards ==
    << playingCard("A", "Hearts"), playingCard("K", "Hearts"),
       playingCard("10", "Hearts"), playingCard("J", "Hearts"),
       playingCard("Q", "Hearts"), playingCard("3", "Hearts"),
       playingCard("3", "Clubs"), playingCard("9", "Clubs"),
       playingCard("9", "Spades"), playingCard("9", "Hearts"),
       playingCard("9", "Diamonds"), playingCard("A", "Spades"),
       playingCard("K", "Diamonds"), playingCard("Q", "Clubs"),
       playingCard("8", "Hearts"), playingCard("2", "Diamonds") >>

PoolUniverse == SubSeq(PoolCards, 1, Min(NumPoolCards, Len(PoolCards)))

\* The increasing index lists of length k over lo..hi
RECURSIVE IncreasingIndexes(_, _, _)
IncreasingIndexes(k, lo, hi) ==
    IF k = 0
    THEN {<< >>}
    ELSE UNION {{<< a >> \o rest : rest \in IncreasingIndexes(k - 1, a + 1, hi)} :
                   a \in lo..hi}

SubLists(universe, k) ==
    {[i \in 1..k |-> universe[idx[i]]] : idx \in IncreasingIndexes(k, 1, Len(universe))}

\* Hole cards and board of the royal-flush scenario
ScenarioPlayerHole == << playingCard("A", "Hearts"), playingCard("K", "Hearts") >>

ScenarioBotHole == << playingCard("9", "Clubs"), playingCard("9", "Spades") >>

ScenarioBoard ==
    << playingCard("10", "Hearts"), playingCard("J", "Hearts"),
       playingCard("Q", "Hearts"), playingCard("3", "Hearts"),
       playingCard("3", "Clubs") >>

\* The 5-card hands of ranks A, 2, 3, 4, 5 in every choice of suits, Ace first
WheelRanks == << "A", "2", "3", "4", "5" >>

WheelHands ==
    {[i \in DOMAIN WheelRanks |-> playingCard(WheelRanks[i], s[i])] :
        s \in [DOMAIN WheelRanks -> Range(suits)]}

EvalInit ==
    /\ \/ /\ evalHand \in SubLists(HandUniverse, 5) \cup WheelHands
          /\ evalOther = ScenarioBoard
       \/ /\ evalHand \in SubLists(PoolUniverse, 2) \cup SubLists(PoolUniverse, 6)
                            \cup SubLists(PoolUniverse, 7)
          /\ evalOther \in {ScenarioBotHole \o ScenarioBoard,
                            ScenarioPlayerHole \o ScenarioBoard}
    /\ evalResult = [op |-> "none", error |-> "None", score |-> << -1, -1 >>,
                     otherScore |-> << -1, -1 >>, winner |-> "None",
                     arg |-> << >>]

RoundIdle ==
    /\ pc = "idle"
    /\ playerBalance = 0
    /\ botBalance = 0
    /\ startPlayerBalance = 0
    /\ startBotBalance = 0
    /\ playerIsSmallBlind = FALSE
    /\ round = 0
    /\ pot = 0
    /\ playerCommitted = 0
    /\ botCommitted = 0
    /\ playerHand = << >>
    /\ botHand = << >>
    /\ communityCards = << >>
    /\ playerActionStr = Unbound
    /\ botActionStr = Unbound
    /\ streetActions = [s \in {"flop", "turn", "river"} |->
                            [player |-> EmptyStr, bot |-> EmptyStr]]
    /\ folder = "None"
    /\ result = NoResult
    /\ asked = << >>
    /\ reshuffled = FALSE

InitEval == RoundIdle /\ DeckIdle /\ EvalInit /\ IoIdle

\* evaluateHand(evalHand): the list is sorted in place
CallEvaluateHand ==
    /\ evalResult.op = "none"
    /\ \E r \in {evaluateHand(evalHand)} :
           /\ evalHand' = r.hand
           /\ evalResult' = [op |-> "evaluateHand", error |-> r.error,
                             score |-> r.score, otherScore |-> << -1, -1 >>,
                             winner |-> "None", arg |-> evalHand]
    /\ UNCHANGED << evalOther, roundVars, deckVars, ioVars >>

\* _best_hand_score(evalHand)
CallBestHandScore ==
    /\ evalResult.op = "none"
    /\ \E r \in {best_hand_score(evalHand)} :
           evalResult' = [op |-> "best_hand_score", error |-> r.error,
                          score |-> r.score, otherScore |-> << -1, -1 >>,
                          winner |-> "None", arg |-> evalHand]
    /\ UNCHANGED << evalHand, evalOther, roundVars, deckVars, ioVars >>

\* _compare_hands(evalHand, evalOther)
CallCompareHands ==
    /\ evalResult.op = "none"
    /\ \E r \in {compare_hands(evalHand, evalOther)} :
           evalResult' = [op |-> "compare_hands", error |-> "None",
                          score |-> r.playerScore, otherScore |-> r.botScore,
                          winner |-> r.winner, arg |-> evalHand]
    /\ UNCHANGED << evalHand, evalOther, roundVars, deckVars, ioVars >>

NextEval == CallEvaluateHand \/ CallBestHandScore \/ CallCompareHands

SpecEval == InitEval /\ [][NextEval]_vars

(***************************************************************************)
(* SpecDeck: a cardDeck under shuffle, draw, burn and reset                *)
(***************************************************************************)

\* Operations applied to one deck.
MaxDeckOps == 3

\* The record of cards handed out, after a draw returned value; reset tells
\* that the deck was reset before the draw.
Hand(before, value, reset) ==
    [ever |-> before.ever \cup Range(value.cards),
     sinceReset |-> (IF reset THEN {} ELSE before.sinceReset) \cup Range(value.cards)]

\* draw and burn are called with n in 0..MaxDrawN, about half a deck, a whole
\* deck, and one card more than a deck holds.
MaxDrawN == 3

DrawSizes ==
    (0..MaxDrawN) \cup {(Len(NewDeck) \div 2) - 2, Len(NewDeck), Len(NewDeck) + 1}

\* cardDeck(): the ordered deck
InitDeck ==
    /\ RoundIdle
    /\ EvalIdle
    /\ IoIdle
    /\ deck = NewDeck
    /\ deckCall = NoCall
    /\ drawn = NoCards
    /\ deckError = "None"
    /\ deckOps = 0
    /\ handed = NoneHanded

\* deck.shuffle()
DeckShuffle ==
    /\ deckOps < MaxDeckOps
    /\ deck' \in ShuffleOutcomes(deck)
    /\ deckCall' = [op |-> "shuffle", n |-> 0, reset |-> FALSE]
    /\ drawn' = NoCards
    /\ deckError' = "None"
    /\ deckOps' = deckOps + 1
    /\ UNCHANGED << handed, roundVars, evalVars, ioVars >>

\* deck.draw(n)
DeckDraw ==
    /\ deckOps < MaxDeckOps
    /\ \E n \in DrawSizes :
        \E r \in {Draw(deck, n)} :
            /\ deck' = r.cards
            /\ drawn' = r.drawn
            /\ deckError' = r.error
            /\ deckCall' = [op |-> "draw", n |-> n, reset |-> FALSE]
            /\ handed' = Hand(handed, r.drawn, FALSE)
    /\ deckOps' = deckOps + 1
    /\ UNCHANGED << roundVars, evalVars, ioVars >>

\* deck.burn(n)
DeckBurn ==
    /\ deckOps < MaxDeckOps
    /\ \E n \in DrawSizes :
        \E r \in {Burn(deck, n)} :
            /\ deck' = r.cards
            /\ deckError' = r.error
            /\ deckCall' = [op |-> "burn", n |-> n, reset |-> FALSE]
    /\ drawn' = NoCards
    /\ deckOps' = deckOps + 1
    /\ UNCHANGED << handed, roundVars, evalVars, ioVars >>

\* deck.reset()
DeckReset ==
    /\ deckOps < MaxDeckOps
    /\ deck' \in ResetOutcomes
    /\ deckCall' = [op |-> "reset", n |-> 0, reset |-> FALSE]
    /\ drawn' = NoCards
    /\ deckError' = "None"
    /\ deckOps' = deckOps + 1
    /\ handed' = [handed EXCEPT !.sinceReset = {}]
    /\ UNCHANGED << roundVars, evalVars, ioVars >>

\* safe_draw(deck, n) for n up to a whole deck
DeckSafeDraw ==
    /\ deckOps < MaxDeckOps
    /\ \E n \in {k \in DrawSizes : k <= Len(NewDeck)} :
        \E r \in SafeDrawOutcomes(deck, n) :
            /\ deck' = r.cards
            /\ drawn' = r.drawn
            /\ deckError' = r.error
            /\ deckCall' = [op |-> "safe_draw", n |-> n, reset |-> r.reset]
            /\ handed' = Hand(handed, r.drawn, r.reset)
    /\ deckOps' = deckOps + 1
    /\ UNCHANGED << roundVars, evalVars, ioVars >>

\* safe_burn(deck, n) for n up to a whole deck
DeckSafeBurn ==
    /\ deckOps < MaxDeckOps
    /\ \E n \in {k \in DrawSizes : k <= Len(NewDeck)} :
        \E r \in SafeBurnOutcomes(deck, n) :
            /\ deck' = r.cards
            /\ deckError' = r.error
            /\ deckCall' = [op |-> "safe_burn", n |-> n, reset |-> r.reset]
            /\ handed' = IF r.reset THEN [handed EXCEPT !.sinceReset = {}] ELSE handed
    /\ drawn' = NoCards
    /\ deckOps' = deckOps + 1
    /\ UNCHANGED << roundVars, evalVars, ioVars >>

NextDeck ==
    DeckShuffle \/ DeckDraw \/ DeckBurn \/ DeckReset \/ DeckSafeDraw \/ DeckSafeBurn

SpecDeck == InitDeck /\ [][NextDeck]_vars

(***************************************************************************)
(* SpecSession: main(), the loop that plays rounds until someone is out of *)
(* chips or the player answers "n"                                         *)
(***************************************************************************)

\* main plays at most MaxRounds rounds.
MaxRounds == 2

\* The player asks for another round only when the round just played moved
\* neither stack by more than MaxSwing chips.
MaxSwing == 10

Abs(x) == IF x < 0 THEN 0 - x ELSE x

Swing ==
    Max(Abs(playerBalance - startPlayerBalance), Abs(botBalance - startBotBalance))

\* The rounds after which the model lets play go on: those that moved little,
\* and those that emptied a stack (after which main does not ask at all).
PlayOn == Swing <= MaxSwing \/ playerBalance <= 0 \/ botBalance <= 0

\* Lines 615-623: both stacks at 1000, the first small blind drawn at random,
\* and the first call of play_round
InitSession ==
    /\ pc = "deal"
    /\ playerBalance = InitialBalance
    /\ botBalance = InitialBalance
    /\ startPlayerBalance = playerBalance
    /\ startBotBalance = botBalance
    /\ playerIsSmallBlind \in BOOLEAN
    /\ round = 1
    /\ pot = 0
    /\ playerCommitted = 0
    /\ botCommitted = 0
    /\ playerHand = << >>
    /\ botHand = << >>
    /\ communityCards = << >>
    /\ playerActionStr = Unbound
    /\ botActionStr = Unbound
    /\ streetActions = [s \in {"flop", "turn", "river"} |->
                            [player |-> EmptyStr, bot |-> EmptyStr]]
    /\ folder = "None"
    /\ result = NoResult
    /\ asked = << >>
    /\ reshuffled = FALSE
    /\ DeckIdle
    /\ EvalIdle
    /\ IoIdle

\* Lines 632-646: play_round returned to main, which writes the player's
\* ending balance into the row and hands the row to the logger
MainRecord ==
    /\ pc = "returned"
    /\ round >= 1
    /\ result' = [result EXCEPT !.roundData.PlayerBalance = playerBalance]
    /\ pc' = "logged"
    /\ UNCHANGED << playerBalance, botBalance, round, playerIsSmallBlind, startPlayerBalance,
                    startBotBalance, pot, playerCommitted, botCommitted, playerHand,
                    botHand, communityCards, playerActionStr, botActionStr,
                    streetActions, folder, asked, reshuffled, deckVars, evalVars,
                    ioVars >>

\* The locals of the play_round call that returned are gone: the next call
\* starts from fresh ones (lines 129-153), and after the loop nothing reads them.
RoundLocalsGone ==
    /\ pot' = 0
    /\ playerCommitted' = 0
    /\ botCommitted' = 0
    /\ playerHand' = << >>
    /\ botHand' = << >>
    /\ communityCards' = << >>
    /\ deck' = << >>
    /\ playerActionStr' = Unbound
    /\ botActionStr' = Unbound
    /\ streetActions' = [s \in {"flop", "turn", "river"} |->
                             [player |-> EmptyStr, bot |-> EmptyStr]]
    /\ folder' = "None"
    /\ result' = NoResult
    /\ asked' = << >>
    /\ reshuffled' = FALSE

\* A loop that keeps the blind roles as they were.
MainLoopNoToggle ==
    /\ pc = "logged"
    /\ round >= 1
    /\ UNCHANGED playerIsSmallBlind
    /\ IF playerBalance <= 0 \/ botBalance <= 0
       THEN /\ pc' = "exited"
            /\ UNCHANGED << round, startPlayerBalance, startBotBalance >>
       ELSE \E choice \in {"", "n"} :
                IF choice = "n"
                THEN /\ pc' = "exited"
                     /\ UNCHANGED << round, startPlayerBalance, startBotBalance >>
                ELSE /\ round < MaxRounds
                     /\ PlayOn
                     /\ round' = round + 1
                     /\ pc' = "deal"
                     /\ startPlayerBalance' = playerBalance
                     /\ startBotBalance' = botBalance
    /\ RoundLocalsGone
    /\ UNCHANGED << playerBalance, botBalance, deckCall, drawn, deckError, deckOps,
                    handed, evalVars, ioVars >>

\* A loop that asks for another round even when a stack is empty.
MainLoopNoBrokeCheck ==
    /\ pc = "logged"
    /\ round >= 1
    /\ playerIsSmallBlind' = ~playerIsSmallBlind
    /\ \E choice \in {"", "n"} :
           IF choice = "n"
           THEN /\ pc' = "exited"
                /\ UNCHANGED << round, startPlayerBalance, startBotBalance >>
           ELSE /\ round < MaxRounds
                /\ PlayOn
                /\ round' = round + 1
                /\ pc' = "deal"
                /\ startPlayerBalance' = playerBalance
                /\ startBotBalance' = botBalance
    /\ RoundLocalsGone
    /\ UNCHANGED << playerBalance, botBalance, deckCall, drawn, deckError, deckOps,
                    handed, evalVars, ioVars >>

\* Lines 648-667: rotate the blinds, stop when a stack is empty or the player
\* answers "n", else call play_round again
MainLoop ==
    /\ pc = "logged"
    /\ round >= 1
    /\ playerIsSmallBlind' = ~playerIsSmallBlind
    /\ IF playerBalance <= 0 \/ botBalance <= 0
       THEN /\ pc' = "exited"
            /\ UNCHANGED << round, startPlayerBalance, startBotBalance >>
       ELSE \E choice \in {"", "n"} :
                IF choice = "n"
                THEN /\ pc' = "exited"
                     /\ UNCHANGED << round, startPlayerBalance, startBotBalance >>
                ELSE /\ round < MaxRounds
                     /\ PlayOn
                     /\ round' = round + 1
                     /\ pc' = "deal"
                     /\ startPlayerBalance' = playerBalance
                     /\ startBotBalance' = botBalance
    /\ RoundLocalsGone
    /\ UNCHANGED << playerBalance, botBalance, deckCall, drawn, deckError, deckOps,
                    handed, evalVars, ioVars >>

NextSession == Next \/ MainRecord \/ MainLoop

SpecSession == InitSession /\ [][NextSession]_vars

(***************************************************************************)
(* SpecInput: getPlayerAction() reading the lines the player types         *)
(***************************************************************************)

\* The player types at most MaxTyped lines.
MaxTyped == 3

\* A line is the sequence of its characters; "sup2" is the superscript two,
\* which str.isdigit accepts and int() does not.
TypedLines ==
    { << "f" >>, << "F" >>, << "c" >>, << "C" >>, << "r" >>, << "R" >>, << "x" >>,
      << >>, << "f", "f" >>, << "0" >>, << "7" >>, << "3", "0" >>, << "0", "7" >>,
      << "-", "5" >>, << "1", ".", "5" >>, << "sup2" >> }

DigitValue ==
    ("0" :> 0) @@ ("1" :> 1) @@ ("2" :> 2) @@ ("3" :> 3) @@ ("4" :> 4) @@
    ("5" :> 5) @@ ("6" :> 6) @@ ("7" :> 7) @@ ("8" :> 8) @@ ("9" :> 9)

\* str.lower() on the characters of the alphabet
lower(line) ==
    [i \in DOMAIN line |->
        CASE line[i] = "F" -> "f"
          [] line[i] = "C" -> "c"
          [] line[i] = "R" -> "r"
          [] OTHER -> line[i]]

\* str.isdigit(): not empty and every character a digit
isdigit(line) ==
    /\ line # << >>
    /\ \A i \in DOMAIN line : line[i] \in DOMAIN DigitValue \cup {"sup2"}

\* int(amount): the decimal value, ValueError for a digit that is no decimal digit
RECURSIVE int(_)
int(line) ==
    IF line = << >>
    THEN [error |-> "None", value |-> 0]
    ELSE LET front == int(SubSeq(line, 1, Len(line) - 1))
             last == line[Len(line)]
         IN  IF front.error # "None" \/ last \notin DOMAIN DigitValue
             THEN [error |-> "ValueError", value |-> 0]
             ELSE [error |-> "None", value |-> 10 * front.value + DigitValue[last]]

InitInput ==
    /\ RoundIdle
    /\ DeckIdle
    /\ EvalIdle
    /\ typed \in UNION {[1..n -> TypedLines] : n \in 0..MaxTyped}
    /\ promptAt = "choice"
    /\ decision = NoDecision

\* Lines 22-29 and 39-40: read the choice; f and c return, r asks for the amount,
\* anything else asks again
ReadChoice ==
    /\ promptAt = "choice"
    /\ typed # << >>
    /\ typed' = Tail(typed)
    /\ LET userInput == lower(Head(typed))
       IN  IF userInput = << "f" >>
           THEN /\ decision' = Action("FOLD", 0)
                /\ promptAt' = "returned"
           ELSE IF userInput = << "c" >>
           THEN /\ decision' = Action("CALL", 0)
                /\ promptAt' = "returned"
           ELSE IF userInput = << "r" >>
           THEN /\ promptAt' = "amount"
                /\ UNCHANGED decision
           ELSE UNCHANGED << promptAt, decision >>
    /\ UNCHANGED << roundVars, deckVars, evalVars >>

\* Lines 30-38: read the raise amount until isdigit() accepts it, then return
ReadAmount ==
    /\ promptAt = "amount"
    /\ typed # << >>
    /\ typed' = Tail(typed)
    /\ LET amount == Head(typed)
       IN  IF isdigit(amount)
           THEN IF int(amount).error = "None"
                THEN /\ decision' = Action("RAISE", int(amount).value)
                     /\ promptAt' = "returned"
                ELSE /\ decision' = Action(int(amount).error, 0)
                     /\ promptAt' = "raised"
           ELSE UNCHANGED << promptAt, decision >>
    /\ UNCHANGED << roundVars, deckVars, evalVars >>

NextInput == ReadChoice \/ ReadAmount

SpecInput == InitInput /\ [][NextInput]_vars

(***************************************************************************)
(* SpecBot: botDecisionWithEval on the lists play_round passes it          *)
(***************************************************************************)

InitBot ==
    /\ RoundIdle
    /\ DeckIdle
    /\ evalHand \in SubLists(PoolUniverse, 2) \cup SubLists(PoolUniverse, 5)
    /\ evalOther = << >>
    /\ evalResult = [op |-> "none", error |-> "None", score |-> << -1, -1 >>,
                     otherScore |-> << -1, -1 >>, winner |-> "None",
                     arg |-> << >>]
    /\ IoIdle

\* botDecisionWithEval(evalHand): evaluateHand sorts the list in place, the
\* table picks the decision
CallBotDecision ==
    /\ evalResult.op = "none"
    /\ \E r \in {evaluateHand(evalHand)} :
           /\ evalHand' = r.hand
           /\ evalResult' = [op |-> "botDecisionWithEval", error |-> r.error,
                             score |-> r.score, otherScore |-> << -1, -1 >>,
                             winner |-> "None", arg |-> evalHand]
           /\ decision' \in BotDecisionTable(r.score[1])
    /\ UNCHANGED << evalOther, typed, promptAt, roundVars, deckVars >>

NextBot == CallBotDecision

SpecBot == InitBot /\ [][NextBot]_vars

(***************************************************************************)
(* Properties                                                              *)
(***************************************************************************)

LexGreater(a, b) == a[1] > b[1] \/ (a[1] = b[1] /\ a[2] > b[2])

\* The step in which an actor folds
FoldStep == folder = "None" /\ folder' # "None"

\* C1: from the blinds until the pot is awarded, the pot equals the chips that
\* have left the two balances since the round began.
C1_PotAccounting ==
    pc \notin {"returned", "raised"}
        => pot = (startPlayerBalance - playerBalance) + (startBotBalance - botBalance)

C1_Witness ==
    /\ pc = "river_bot"
    /\ ~playerIsSmallBlind
    /\ playerCommitted > 0
    /\ pot > smallBlind + bigBlind + 2 * MaxPlayerRaise
    /\ botBalance < startBotBalance - bigBlind

\* C2: a FOLD by either actor on any street, acting first or second, ends the
\* round at once: play_round returns the other actor as winner, the winner's
\* balance grows by the whole pot and the folder's balance is unchanged.
C2_FoldEndsRound ==
    [][FoldStep =>
          /\ pc' = "returned"
          /\ result'.kind = "return"
          /\ result'.winner = (IF folder' = "Player" THEN "Bot" ELSE "Player")
          /\ folder' = "Player" =>
                 /\ botBalance' = botBalance + pot
                 /\ playerBalance' = playerBalance
                 /\ result'.botBalance = botBalance'
          /\ folder' = "Bot" =>
                 /\ playerBalance' = playerBalance + pot
                 /\ botBalance' = botBalance
                 /\ result'.playerBalance = playerBalance']_vars

\* C3: a fold burns and deals nothing: the deck and the community cards after
\* the fold step are those before it.
C3_FoldDealsNothing ==
    [][FoldStep => deck' = deck /\ communityCards' = communityCards]_vars

C3_Witness ==
    /\ pc = "returned"
    /\ folder = "Bot"
    /\ Len(communityCards) = 4
    /\ Len(deck) = Len(NewDeck) - 10

\* C4: with non-negative starting balances neither balance is ever negative.
C4_BalancesNonNegative == playerBalance >= 0 /\ botBalance >= 0

\* A raise that the balance truncated: the player, small blind on MidStack, calls
\* and raises MaxPlayerRaise and is left with nothing.
C4_Witness ==
    /\ pc = "preflop_second"
    /\ playerIsSmallBlind
    /\ startPlayerBalance = MidStack
    /\ playerActionStr = << "RAISE", MaxPlayerRaise >>
    /\ playerBalance = 0
    /\ playerCommitted < bigBlind + MaxPlayerRaise

\* The best score of a pool: the greatest score, in the lexicographic order on
\* (category, tiebreak), among its 5-card sublists
BestScoreOfPool(pool) ==
    LET scores == {evaluateHand(h).score : h \in SubLists(pool, 5)}
    IN  CHOOSE s \in scores : \A other \in scores : ~LexGreater(other, s)

\* C5: at showdown the strictly higher best-hand score wins the whole pot; on
\* equal scores the winner is Tie and neither balance is credited.
C5_ShowdownAward ==
    [][(pc = "showdown" /\ pc' = "returned") =>
          \A ps \in {BestScoreOfPool(playerHand \o communityCards)} :
              \A bs \in {BestScoreOfPool(botHand \o communityCards)} :
                  /\ LexGreater(ps, bs) =>
                         /\ result'.winner = "Player"
                         /\ playerBalance' = playerBalance + pot
                         /\ botBalance' = botBalance
                  /\ LexGreater(bs, ps) =>
                         /\ result'.winner = "Bot"
                         /\ botBalance' = botBalance + pot
                         /\ playerBalance' = playerBalance
                  /\ ps = bs =>
                         /\ result'.winner = "Tie"
                         /\ playerBalance' = playerBalance
                         /\ botBalance' = botBalance]_vars

C5_Witness ==
    /\ pc = "returned"
    /\ folder = "None"
    /\ result.winner = "Tie"
    /\ pot > smallBlind + bigBlind
    /\ playerBalance + botBalance = startPlayerBalance + startBotBalance - pot

\* The category of a 5-card hand by the precedence order, from the set of its
\* cards: how many cards each value has, whether one suit holds them all, and
\* whether the values are five consecutive integers.
CategoryByPrecedence(hand) ==
    LET cardSet == Range(hand)
        valueSet == {getValue(c) : c \in cardSet}
        countOf(v) == Cardinality({c \in cardSet : getValue(c) = v})
        flush == \A c \in cardSet : \A d \in cardSet : c.suit = d.suit
        straight == /\ Cardinality(valueSet) = 5
                    /\ \A v \in valueSet : \A w \in valueSet : v - w <= 4
        pairs == {v \in valueSet : countOf(v) = 2}
        trips == {v \in valueSet : countOf(v) = 3}
        quads == {v \in valueSet : countOf(v) = 4}
    IN  CASE flush /\ valueSet = 10..14 -> 9
          [] flush /\ straight /\ valueSet # 10..14 -> 8
          [] ~(flush /\ straight) /\ quads # {} -> 7
          [] trips # {} /\ pairs # {} -> 6
          [] flush /\ ~straight /\ quads = {} /\ ~(trips # {} /\ pairs # {}) -> 5
          [] straight /\ ~flush -> 4
          [] trips # {} /\ pairs = {} /\ ~flush /\ ~straight -> 3
          [] Cardinality(pairs) = 2 /\ ~flush -> 2
          [] Cardinality(pairs) = 1 /\ trips = {} /\ ~flush -> 1
          [] OTHER -> 0

\* C6: for every hand of 5 distinct cards evaluateHand returns the category
\* the precedence order Royal Flush(9) > ... > High Card(0) gives it; a suited
\* 10-J-Q-K-A scores 9.
C6_CategoryByPrecedence ==
    (evalResult.op = "evaluateHand" /\ Len(evalResult.arg) = 5
        /\ Cardinality(Range(evalResult.arg)) = 5)
        => /\ evalResult.error = "None"
           /\ evalResult.score[1] = CategoryByPrecedence(evalResult.arg)
           /\ ((\A i \in 1..5 : evalResult.arg[i].suit = evalResult.arg[1].suit)
                /\ {evalResult.arg[i].rank : i \in 1..5} = {"10", "J", "Q", "K", "A"})
                  => evalResult.score[1] = 9

C6_Witness ==
    /\ evalResult.op = "evaluateHand"
    /\ Len(evalResult.arg) = 5
    /\ evalResult.score[1] = 9
    /\ evalResult.arg # evalHand

\* C7: called with a number of cards other than 5, the evaluator raises an
\* input error instead of returning a score.
C7_RequiresFiveCards ==
    (evalResult.op = "evaluateHand" /\ Len(evalResult.arg) # 5)
        => evalResult.error # "None"

\* C8: for a pool of more than 5 cards _best_hand_score returns a score that no
\* 5-card sublist of the pool exceeds and that one of them attains; for a pool
\* of at most 5 cards it returns evaluateHand of the pool.
C8_BestHandMaximal ==
    evalResult.op = "best_hand_score"
        => IF Len(evalResult.arg) <= 5
           THEN evalResult.score = evaluateHand(evalResult.arg).score
           ELSE LET scores == {evaluateHand(h).score : h \in SubLists(evalResult.arg, 5)}
                IN  /\ \A s \in scores : ~LexGreater(s, evalResult.score)
                    /\ evalResult.score \in scores

\* A 7-card pool whose best score is not that of its first five cards
C8_Witness ==
    /\ evalResult.op = "best_hand_score"
    /\ Len(evalResult.arg) = 7
    /\ LexGreater(evalResult.score, evaluateHand(SubSeq(evalResult.arg, 1, 5)).score)

\* C9: A-K of Hearts against 9 of Clubs, 9 of Spades on the board 10-J-Q-3 of
\* Hearts, 3 of Clubs: the player's category is 9, the bot's is at least 2, and
\* _compare_hands names Player the winner.
C9_RoyalFlushScenario ==
    (evalResult.op = "compare_hands"
        /\ evalResult.arg = ScenarioPlayerHole \o ScenarioBoard
        /\ evalOther = ScenarioBotHole \o ScenarioBoard)
        => /\ evalResult.score[1] = 9
           /\ evalResult.otherScore[1] >= 2
           /\ evalResult.winner = "Player"

C9_Witness ==
    /\ evalResult.op = "compare_hands"
    /\ evalResult.arg = ScenarioPlayerHole \o ScenarioBoard
    /\ evalOther = ScenarioBotHole \o ScenarioBoard
    /\ evalResult.otherScore = << 2, 12 >>

\* C10: draw(n) and burn(n) raise emptyDeckError exactly when fewer than n
\* cards remain and then leave the deck as it was; otherwise they remove
\* exactly n cards and draw hands back exactly n.
C10_DrawBurnAllOrNothing ==
    [][deckCall'.op \in {"draw", "burn"} =>
          IF Len(deck) < deckCall'.n
          THEN /\ deckError' = "emptyDeckError"
               /\ deck' = deck
               /\ drawn'.cards = << >>
          ELSE /\ deckError' = "None"
               /\ Len(deck') = Len(deck) - deckCall'.n
               /\ deck' = SubSeq(deck, 1, Len(deck'))
               /\ deckCall'.op = "draw" => Len(drawn'.cards) = deckCall'.n]_vars

\* A draw refused by a deck that still holds cards
C10_Witness ==
    /\ deckCall.op = "draw"
    /\ deckError = "emptyDeckError"
    /\ Len(deck) > 0
    /\ Len(deck) < deckCall.n
    /\ deckCall.n <= Len(NewDeck)

\* C11 as stated: over any sequence of shuffle, draw, burn and reset each
\* successful draw(n) shrinks the deck by n and returns no card that any
\* earlier draw returned.
C11_NoDuplicateEver ==
    [][(deckCall'.op = "draw" /\ deckError' = "None") =>
          /\ Len(deck') = Len(deck) - deckCall'.n
          /\ Range(drawn'.cards) \cap handed.ever = {}]_vars

\* C11 amended: each successful draw(n) shrinks the deck by exactly n cards and
\* returns n different cards, none of which a draw returned since the deck was
\* created or last reset.
C11_NoDuplicateSinceReset ==
    [][(deckCall'.op = "draw" /\ deckError' = "None") =>
          /\ Len(deck') = Len(deck) - deckCall'.n
          /\ Cardinality(Range(drawn'.cards)) = deckCall'.n
          /\ Range(drawn'.cards) \cap handed.sinceReset = {}]_vars

\* A draw after an earlier draw, with a reset before both
C11_Witness ==
    /\ deckCall.op = "draw"
    /\ deckError = "None"
    /\ drawn.cards # << >>
    /\ Range(drawn.cards) # handed.sinceReset
    /\ handed.ever # handed.sinceReset

AllCards == {playingCard(r, s) : r \in Range(ranks), s \in Range(suits)}

\* C12: from any deck state reset() leaves exactly 52 cards, one for each of
\* the 13 ranks x 4 suits, none twice.
C12_ResetYieldsFullDeck ==
    [][deckCall'.op = "reset" =>
          /\ Len(deck') = 52
          /\ Range(deck') = AllCards
          /\ Cardinality(AllCards) = 52]_vars

\* A reset of a deck that was short of cards
C12_Witness ==
    /\ deckCall.op = "reset"
    /\ Len(deck) = 52
    /\ handed.ever # {}
    /\ handed.sinceReset = {}

\* C13: for every deck state and n in 0..52, safe_draw returns exactly n cards
\* and safe_burn removes exactly n cards without raising emptyDeckError,
\* resetting the deck to 52 cards first when fewer than n remain.
C13_SafeNeverFatal ==
    [][(deckCall'.op \in {"safe_draw", "safe_burn"} /\ deckCall'.n \in 0..52) =>
          /\ deckError' = "None"
          /\ deckCall'.reset = (Len(deck) < deckCall'.n)
          /\ Len(deck') = (IF Len(deck) < deckCall'.n THEN 52 ELSE Len(deck)) - deckCall'.n
          /\ deckCall'.op = "safe_draw" =>
                 /\ Len(drawn'.cards) = deckCall'.n
                 /\ Cardinality(Range(drawn'.cards)) = deckCall'.n
                 /\ Range(drawn'.cards) \cap Range(deck') = {}]_vars

\* A safe_draw that had to reset the deck
C13_Witness ==
    /\ deckCall.op = "safe_draw"
    /\ deckCall.reset
    /\ deckCall.n > 0
    /\ deckError = "None"
    /\ Len(drawn.cards) = deckCall.n

\* C14: at the blinds step the small-blind actor posts min(smallBlind, its
\* balance) and the big-blind actor min(bigBlind, its balance); afterwards the
\* pot is the sum of the two and each actor's committed amount is what it posted.
C14_BlindsCapped ==
    [][pc = "blinds" =>
          LET sbBalance == IF playerIsSmallBlind THEN playerBalance ELSE botBalance
              bbBalance == IF playerIsSmallBlind THEN botBalance ELSE playerBalance
              sbPosted == IF smallBlind <= sbBalance THEN smallBlind ELSE sbBalance
              bbPosted == IF bigBlind <= bbBalance THEN bigBlind ELSE bbBalance
              playerPosted == IF playerIsSmallBlind THEN sbPosted ELSE bbPosted
              botPosted == IF playerIsSmallBlind THEN bbPosted ELSE sbPosted
          IN  /\ pc' = "preflop_first"
              /\ playerBalance' = playerBalance - playerPosted
              /\ botBalance' = botBalance - botPosted
              /\ pot' = sbPosted + bbPosted
              /\ playerCommitted' = playerPosted
              /\ botCommitted' = botPosted]_vars

\* Blinds posted with the small blind short of chips and the big blind not
C14_Witness ==
    /\ pc = "preflop_first"
    /\ playerIsSmallBlind
    /\ playerCommitted > 0
    /\ playerCommitted < smallBlind
    /\ playerBalance = 0
    /\ botCommitted = bigBlind

\* Both actors answered CALL at each of their four decisions
AllCalled ==
    /\ playerActionStr = << "CALL" >>
    /\ botActionStr = << "CALL" >>
    /\ \A s \in {"flop", "turn", "river"} :
           /\ streetActions[s].player = << "CALL" >>
           /\ streetActions[s].bot = << "CALL" >>

\* The round of the scenario: balances 1000/1000, blinds 5/10, player small blind
CallScenario ==
    /\ startPlayerBalance = InitialBalance
    /\ startBotBalance = InitialBalance
    /\ playerIsSmallBlind

C15_BlindsAlternate ==
    [][/\ round' = round + 1 => playerIsSmallBlind' = ~playerIsSmallBlind
       /\ (round' = round /\ pc # "logged") => playerIsSmallBlind' = playerIsSmallBlind
       /\ pc = "logged" => playerIsSmallBlind' = ~playerIsSmallBlind]_vars

\* A second round under way after a first one that the player won
C15_Witness ==
    /\ round = 2
    /\ pc = "preflop_first"
    /\ startPlayerBalance = InitialBalance + bigBlind
    /\ startBotBalance = InitialBalance - bigBlind
    /\ playerCommitted = IF playerIsSmallBlind THEN smallBlind ELSE bigBlind

\* C17: getPlayerAction returns only (FOLD, 0), (CALL, 0) or (RAISE, a) with a
\* a positive integer.
C17_WellFormedActions ==
    /\ promptAt # "raised"
    /\ promptAt = "returned" =>
           \/ decision \in {Action("FOLD", 0), Action("CALL", 0)}
           \/ (decision.name = "RAISE" /\ decision.amount \in Nat /\ decision.amount > 0)

\* C18: for every hand category botDecisionWithEval returns only (FOLD, 0),
\* (CALL, 0) or (RAISE, a) with a between 20 and 100.
C18_BotRaiseRange ==
    evalResult.op = "botDecisionWithEval" =>
        \/ decision \in {Action("FOLD", 0), Action("CALL", 0)}
        \/ (decision.name = "RAISE" /\ decision.amount \in 20..100)

\* C19: every round that settles, by fold or by showdown, yields a record that
\* holds both hole hands, the community cards, each actor's action on every
\* street played, the strength labels, the winner and the player's ending balance.
C19_RoundRecord ==
    pc = "logged" =>
        LET row == result.roundData
        IN  /\ result.kind = "return"
            /\ row.PlayerHand = JoinCards(playerHand)
            /\ row.BotHand = JoinCards(botHand)
            /\ row.PlayerPreflopAction = playerActionStr
            /\ row.BotPreflopAction = botActionStr
            /\ \A s \in {"flop", "turn", "river"} :
                   /\ streetActions[s].player \in {row.PlayerFlopAction,
                                                   row.PlayerTurnAction,
                                                   row.PlayerRiverAction}
                   /\ streetActions[s].bot \in {row.BotFlopAction, row.BotTurnAction,
                                                row.BotRiverAction}
            /\ folder = "None" =>
                   /\ row.PlayerStrength # ""
                   /\ row.BotStrength # ""
            /\ row.Winner = result.winner
            /\ row.PlayerBalance = playerBalance
            /\ communityCards # << >> =>
                   /\ "CommunityCards" \in DOMAIN row
                   /\ row.CommunityCards = JoinCards(communityCards)

\* The phase that follows each position of play_round in the fixed order
NextInOrder ==
    [p \in {"deal", "blinds", "preflop_first", "preflop_second", "flop_deal",
            "flop_player", "flop_bot", "turn_deal", "turn_player", "turn_bot",
            "river_deal", "river_player", "river_bot", "showdown"} |->
        CASE p = "deal" -> "blinds"
          [] p = "blinds" -> "preflop_first"
          [] p = "preflop_first" -> "preflop_second"
          [] p = "preflop_second" -> "flop_deal"
          [] p = "flop_deal" -> "flop_player"
          [] p = "flop_player" -> "flop_bot"
          [] p = "flop_bot" -> "turn_deal"
          [] p = "turn_deal" -> "turn_player"
          [] p = "turn_player" -> "turn_bot"
          [] p = "turn_bot" -> "river_deal"
          [] p = "river_deal" -> "river_player"
          [] p = "river_player" -> "river_bot"
          [] p = "river_bot" -> "showdown"
          [] p = "showdown" -> "returned"]

BettingPositions ==
    {"preflop_first", "preflop_second", "flop_player", "flop_bot", "turn_player",
     "turn_bot", "river_player", "river_bot"}

\* C20: a round moves through deal, blinds, preflop betting, flop deal, flop
\* betting, turn deal, turn betting, river deal, river betting, showdown and
\* settled in this order; the only other step goes from a betting phase
\* straight to settled on a FOLD, and the showdown compares hands only when
\* nobody folded.
C20_PhaseOrder ==
    [][/\ pc \in DOMAIN NextInOrder
       /\ \/ /\ pc' = NextInOrder[pc]
             /\ folder' = "None"
          \/ /\ pc \in BettingPositions
             /\ FoldStep
             /\ pc' = "returned"]_vars

\* The decisions requested on a street, in the order they were requested
AskedOn(street, requests) == SelectSeq(requests, LAMBDA e : e[2] = street)

\* C21: preflop the small blind decides first and the big blind second, each is
\* asked once, the second only when the first did not fold; the round goes on
\* to the flop only after both were asked.
C21_PreflopOrder ==
    [][LET first == IF playerIsSmallBlind THEN "player" ELSE "bot"
           second == IF playerIsSmallBlind THEN "bot" ELSE "player"
           before == AskedOn("preflop", asked)
           after == AskedOn("preflop", asked')
       IN  /\ Len(after) <= 2
           /\ Len(after) >= 1 => after[1] = << first, "preflop" >>
           /\ Len(after) = 2 => after[2] = << second, "preflop" >>
           /\ (Len(before) = 1 /\ Len(after) = 2) => folder = "None"
           /\ (Len(before) = 1 /\ folder # "None") => Len(after) = 1
           /\ pc' \in {"preflop_second"} => Len(after) = 1
           /\ (pc' \in DOMAIN NextInOrder /\ pc' \notin {"deal", "blinds",
                   "preflop_first", "preflop_second"}) => Len(after) = 2
           /\ (pc' = "returned" /\ folder' = "None") => Len(after) = 2]_vars

C21_Witness ==
    /\ pc = "flop_deal"
    /\ ~playerIsSmallBlind
    /\ asked = << << "bot", "preflop" >>, << "player", "preflop" >> >>
    /\ botCommitted > smallBlind

\* The name and the amount of the action an action string was formatted from
NameOf(actionStr) == actionStr[1]

AmountOf(actionStr) == IF Len(actionStr) = 2 THEN actionStr[2] ELSE 0

\* The step in which who decides on street, with the chips it must move: a CALL
\* moves min(d, balance) and a RAISE of a moves min(d + a, balance), where d is
\* max(0, opponent's committed - own committed); the chips leave the actor's
\* balance for the pot and its committed amount, and touch nothing of the
\* opponent's.  matched tells when a CALL has to level the committed amounts.
PreflopMoves(who, matched(_, _, _)) ==
    asked' = Append(asked, << who, "preflop" >>) =>
        LET isPlayer == who = "player"
            own == IF isPlayer THEN playerCommitted ELSE botCommitted
            opp == IF isPlayer THEN botCommitted ELSE playerCommitted
            bal == IF isPlayer THEN playerBalance ELSE botBalance
            ownAfter == IF isPlayer THEN playerCommitted' ELSE botCommitted'
            oppAfter == IF isPlayer THEN botCommitted' ELSE playerCommitted'
            balAfter == IF isPlayer THEN playerBalance' ELSE botBalance'
            str == IF isPlayer THEN playerActionStr' ELSE botActionStr'
            d == IF opp - own > 0 THEN opp - own ELSE 0
            moved == IF NameOf(str) = "CALL"
                     THEN (IF d < bal THEN d ELSE bal)
                     ELSE (IF d + AmountOf(str) < bal THEN d + AmountOf(str) ELSE bal)
        IN  NameOf(str) \in {"CALL", "RAISE"} =>
                /\ balAfter = bal - moved
                /\ pot' = pot + moved
                /\ ownAfter = own + moved
                /\ oppAfter = opp
                /\ (IF isPlayer THEN botBalance' = botBalance
                    ELSE playerBalance' = playerBalance)
                /\ (NameOf(str) = "CALL" /\ matched(d, bal, opp - own)) =>
                       ownAfter = oppAfter

NotTruncated(d, bal, lead) == d <= bal

NotTruncatedNorAhead(d, bal, lead) == d <= bal /\ lead >= 0

\* C22 as stated: preflop a CALL moves min(d, balance) and a RAISE of a moves
\* min(d + a, balance) from the actor's balance into the pot and its committed
\* amount, and every CALL the balance does not truncate leaves the two
\* committed amounts equal.
C22_PreflopChips ==
    [][\A who \in {"player", "bot"} : PreflopMoves(who, NotTruncated)]_vars

\* C22 amended: the same chip movement; a CALL the balance does not truncate
\* leaves the two committed amounts equal when the caller had not already
\* committed more than the opponent (a big blind posted short of the small
\* blind leaves the small blind ahead, and its CALL moves nothing).
C22_PreflopChipsUnlessAhead ==
    [][\A who \in {"player", "bot"} : PreflopMoves(who, NotTruncatedNorAhead)]_vars

C22_Witness ==
    /\ pc = "flop_deal"
    /\ playerIsSmallBlind
    /\ startPlayerBalance = InitialBalance
    /\ playerActionStr = << "CALL" >>
    /\ NameOf(botActionStr) = "RAISE"
    /\ playerCommitted = bigBlind
    /\ botCommitted = bigBlind + AmountOf(botActionStr)
    /\ pot = playerCommitted + botCommitted

StreetOf ==
    [p \in {"flop_player", "flop_bot", "turn_player", "turn_bot", "river_player",
            "river_bot"} |->
        CASE p \in {"flop_player", "flop_bot"} -> "flop"
          [] p \in {"turn_player", "turn_bot"} -> "turn"
          [] p \in {"river_player", "river_bot"} -> "river"]

\* C23: on flop, turn and river both committed amounts start at 0, the player
\* decides first and then the bot, each once; the player's CALL moves nothing,
\* the player's RAISE a moves min(a, player balance), the bot's CALL moves
\* min(player's committed amount, bot balance) and the bot's RAISE a moves
\* min(player's committed amount + a, bot balance).
C23_StreetBetting ==
    [][\A s \in {"flop", "turn", "river"} :
        LET before == AskedOn(s, asked)
            after == AskedOn(s, asked')
            pStr == streetActions'[s].player
            bStr == streetActions'[s].bot
            pMoved == IF NameOf(pStr) = "RAISE"
                      THEN (IF AmountOf(pStr) < playerBalance
                            THEN AmountOf(pStr) ELSE playerBalance)
                      ELSE 0
            bWanted == IF NameOf(bStr) = "RAISE"
                       THEN playerCommitted + AmountOf(bStr)
                       ELSE playerCommitted
            bMoved == IF bWanted < botBalance THEN bWanted ELSE botBalance
        IN  /\ (pc' \in DOMAIN StreetOf /\ StreetOf[pc'] = s /\ pc # pc'
                    /\ pc \notin DOMAIN StreetOf) =>
                   /\ playerCommitted' = 0
                   /\ botCommitted' = 0
                   /\ after = << >>
            /\ (Len(after) > Len(before) /\ before = << >>) =>
                   /\ after = << << "player", s >> >>
                   /\ NameOf(pStr) \in {"CALL", "RAISE"} =>
                          /\ playerBalance' = playerBalance - pMoved
                          /\ pot' = pot + pMoved
                          /\ playerCommitted' = pMoved
                          /\ botBalance' = botBalance
                          /\ botCommitted' = 0
            /\ (Len(after) > Len(before) /\ before # << >>) =>
                   /\ after = << << "player", s >>, << "bot", s >> >>
                   /\ folder = "None"
                   /\ NameOf(bStr) \in {"CALL", "RAISE"} =>
                          /\ botBalance' = botBalance - bMoved
                          /\ pot' = pot + bMoved
                          /\ botCommitted' = bMoved
                          /\ playerBalance' = playerBalance
                          /\ playerCommitted' = playerCommitted
            /\ (pc \in DOMAIN StreetOf /\ StreetOf[pc] = s /\ pc' \notin DOMAIN StreetOf
                    /\ folder' = "None") =>
                   Len(after) = 2]_vars

C23_Witness ==
    /\ pc = "turn_deal"
    /\ streetActions["flop"].player = << "RAISE", MaxPlayerRaise >>
    /\ NameOf(streetActions["flop"].bot) = "CALL"
    /\ playerCommitted = MaxPlayerRaise
    /\ botCommitted = MaxPlayerRaise

\* The number of community cards each position of the round shows
BoardSize ==
    [p \in {"preflop_first", "preflop_second", "flop_player", "flop_bot",
            "turn_player", "turn_bot", "river_player", "river_bot", "showdown"} |->
        CASE p \in {"preflop_first", "preflop_second"} -> 0
          [] p \in {"flop_player", "flop_bot"} -> 3
          [] p \in {"turn_player", "turn_bot"} -> 4
          [] p \in {"river_player", "river_bot", "showdown"} -> 5]

\* The k cards under the top card of cards, in the order draws hand them out
UnderTop(cards, k) == [i \in 1..k |-> cards[Len(cards) - i]]

\* C24: the board holds 0 cards throughout preflop betting, 3 throughout flop
\* betting, 4 throughout turn betting and 5 throughout river betting and the
\* showdown; every community deal first burns exactly one card, so the deck
\* shrinks by 4 at the flop and by 2 at the turn and at the river, and the
\* cards dealt are those under the burnt top card.
C24_BoardAndBurns ==
    [][/\ pc' \in DOMAIN BoardSize => Len(communityCards') = BoardSize[pc']
       /\ (pc = "flop_deal" /\ pc' = "flop_player") =>
              /\ Len(deck') = Len(deck) - 4
              /\ communityCards' = communityCards \o UnderTop(deck, 3)
              /\ deck' = SubSeq(deck, 1, Len(deck) - 4)
       /\ (pc \in {"turn_deal", "river_deal"} /\ pc' \in {"turn_player", "river_player"}) =>
              /\ Len(deck') = Len(deck) - 2
              /\ communityCards' = communityCards \o UnderTop(deck, 1)
              /\ deck' = SubSeq(deck, 1, Len(deck) - 2)
       /\ communityCards' # communityCards =>
              pc \in {"flop_deal", "turn_deal", "river_deal"}]_vars

C24_Witness ==
    /\ pc = "showdown"
    /\ Len(communityCards) = 5
    /\ Len(deck) = Len(NewDeck) - 12
    /\ \A i \in DOMAIN communityCards : communityCards[i] \in Range(NewDeck)

\* C25: A-2-3-4-5 is not a straight: evaluateHand gives such a hand category
\* 0 when its suits differ and 5 when they are all equal; a 5-card hand gets a
\* straight category (4, or 8 and 9 with a flush) exactly when its five rank
\* values, Ace = 14, are consecutive integers.
C25_NoLowAceStraight ==
    (evalResult.op = "evaluateHand" /\ Len(evalResult.arg) = 5) =>
        LET cards == Range(evalResult.arg)
            vals == {rankValues[c.rank] : c \in cards}
            oneSuit == \A c \in cards : \A d \in cards : c.suit = d.suit
            consecutive == /\ Cardinality(vals) = 5
                           /\ \A v \in vals : \A w \in vals : v - w <= 4
            category == evalResult.score[1]
        IN  /\ {c.rank : c \in cards} = Range(WheelRanks) =>
                   category = (IF oneSuit THEN 5 ELSE 0)
            /\ category \in {4, 8, 9} <=> consecutive
            /\ category = 4 <=> (consecutive /\ ~oneSuit)

C25_Witness ==
    /\ evalResult.op = "evaluateHand"
    /\ evalResult.arg \in WheelHands
    /\ Cardinality({evalResult.arg[i].suit : i \in DOMAIN evalResult.arg}) = 1
    /\ evalResult.score = << 5, 14 >>
    /\ evalHand[5].rank = "A"

\* The greatest rank value among the cards of a hand
HighestValue(hand) ==
    LET vals == {rankValues[hand[i].rank] : i \in DOMAIN hand}
    IN  CHOOSE v \in vals : \A w \in vals : w <= v

\* C26: for a 5-card hand evaluateHand returns (category, tiebreak) with the
\* category in 0..9 and the tiebreak the greatest rank value among the five
\* cards, in 2..14, whatever the category; two 5-card hands of the same
\* category and the same highest card compare as equal.
C26_TiebreakIsHighCard ==
    /\ (evalResult.op = "evaluateHand" /\ Len(evalResult.arg) = 5) =>
           /\ evalResult.error = "None"
           /\ evalResult.score[1] \in 0..9
           /\ evalResult.score[2] = HighestValue(evalResult.arg)
           /\ evalResult.score[2] \in 2..14
    /\ (evalResult.op = "compare_hands" /\ Len(evalHand) = 5 /\ Len(evalOther) = 5) =>
           ((/\ CategoryByPrecedence(evalHand) = CategoryByPrecedence(evalOther)
             /\ HighestValue(evalHand) = HighestValue(evalOther))
                => evalResult.winner = "Tie")

\* Two nines with a queen on top against two threes with a queen on top
C26_Witness ==
    /\ evalResult.op = "compare_hands"
    /\ Len(evalHand) = 5
    /\ Len(evalOther) = 5
    /\ Cardinality({i \in DOMAIN evalHand : evalHand[i].rank = "9"}) = 2
    /\ evalResult.score = << 1, 12 >>
    /\ evalResult.otherScore = << 1, 12 >>
    /\ evalResult.winner = "Tie"

\* C27: each actor holds exactly 2 hole cards from the deal until settlement,
\* and no step after the deal (blinds, betting, the bot's decision, hand
\* evaluation, showdown) changes either actor's hole cards.
C27_HoleCardsFixed ==
    [][/\ pc' # "deal" => Len(playerHand') = 2 /\ Len(botHand') = 2
       /\ pc # "deal" => playerHand' = playerHand /\ botHand' = botHand]_vars

\* C28: in the session loop a round starts with exactly the two balances the
\* round before it returned, and after a round that left a balance at 0 or
\* below no further round is started.
C28_BalancesCarried ==
    [][/\ round' # round =>
              /\ round' = round + 1
              /\ result.kind = "return"
              /\ pc' = "deal"
              /\ playerBalance' = result.playerBalance
              /\ botBalance' = result.botBalance
              /\ startPlayerBalance' = result.playerBalance
              /\ startBotBalance' = result.botBalance
              /\ result.playerBalance > 0
              /\ result.botBalance > 0
       /\ (pc = "logged" /\ (result.playerBalance <= 0 \/ result.botBalance <= 0)) =>
              /\ pc' = "exited"
              /\ round' = round
       /\ pc = "exited" => pc' = "exited"
       /\ (pc = "deal" /\ pc' # "deal") =>
              /\ playerBalance = startPlayerBalance
              /\ botBalance = startBotBalance]_vars

\* The session is over after a first round in which the player raised a whole
\* stack, the bot called and lost everything.
C28_Witness ==
    /\ pc = "exited"
    /\ round = 1
    /\ botBalance = 0
    /\ playerBalance = 2 * InitialBalance

\* C29: a round that settles with winner Player or Bot, by fold or by
\* showdown, returns two balances whose sum is the sum of the two balances
\* passed in; so across the rounds of a session the total chip count changes
\* only in a round that ends in a showdown tie.
C29_ChipsConserved ==
    [][/\ (pc' = "returned" /\ pc # "returned" /\ result'.winner \in {"Player", "Bot"}) =>
              /\ result'.playerBalance + result'.botBalance
                     = startPlayerBalance + startBotBalance
              /\ result'.playerBalance = playerBalance'
              /\ result'.botBalance = botBalance'
       /\ (round' = round + 1 /\ result.winner # "Tie") =>
              startPlayerBalance' + startBotBalance'
                  = startPlayerBalance + startBotBalance
       /\ (pc' \in {"deal", "exited"} /\ playerBalance' + botBalance' # 2 * InitialBalance) =>
              \/ result.winner = "Tie"
              \/ startPlayerBalance + startBotBalance # 2 * InitialBalance]_vars

\* A second round, entered with 990 against 1010, that the bot won at the
\* showdown after chips went in beyond the blinds
C29_Witness ==
    /\ round = 2
    /\ pc = "logged"
    /\ folder = "None"
    /\ result.winner = "Bot"
    /\ startPlayerBalance = InitialBalance - bigBlind
    /\ pot > smallBlind + bigBlind
    /\ playerBalance + botBalance = 2 * InitialBalance

\* The cards on the table: the four hole cards and the community cards
OnTable == playerHand \o botHand \o communityCards

\* The cards burned before the community cards dealt so far
BurnedFor(numCommunity) ==
    CASE numCommunity = 0 -> 0
      [] numCommunity = 3 -> 1
      [] numCommunity = 4 -> 2
      [] numCommunity = 5 -> 3

\* C30: within one round at most 12 of the 52 cards leave the deck (4 hole
\* cards, 3 burns, 5 community cards), so no draw or burn fails, safe_draw and
\* safe_burn never reset the deck, and the 4 hole cards and the community
\* cards are pairwise distinct cards.
C30_DeckSuffices ==
    pc # "deal" =>
        /\ ~reshuffled
        /\ Len(NewDeck) - Len(deck) <= 12
        /\ Len(communityCards) \in {0, 3, 4, 5}
        /\ Len(deck) = Len(NewDeck) - Len(OnTable) - BurnedFor(Len(communityCards))
        /\ Len(playerHand) = 2 /\ Len(botHand) = 2
        /\ \A i \in DOMAIN OnTable : \A j \in DOMAIN OnTable :
               i # j => OnTable[i] # OnTable[j]
        /\ \A i \in DOMAIN OnTable :
               /\ OnTable[i] \in Range(NewDeck)
               /\ OnTable[i] \notin Range(deck)

C30_Witness ==
    /\ pc = "returned"
    /\ folder = "None"
    /\ ~reshuffled
    /\ Len(NewDeck) - Len(deck) = 12
    /\ Cardinality(Range(OnTable)) = 9

\* C31: every round ends settled: play_round requests at most 8 decisions and
\* ends only by returning a winner among Player, Bot and Tie together with the
\* two balances; it never ends in any other way (an exception).
C31_RoundSettles ==
    /\ Len(asked) <= 8
    /\ pc # "raised"
    /\ result.kind \in {"none", "return"}
    /\ pc = "returned" =>
           /\ result.kind = "return"
           /\ result.winner \in {"Player", "Bot", "Tie"}
           /\ result.playerBalance = playerBalance
           /\ result.botBalance = botBalance
    /\ pc \notin {"returned", "raised"} => pc \in DOMAIN NextInOrder

====
